---- MODULE Spec2Model ----
(***************************************************************************)
(* Model of bioy's "classifier" subcommand                                  *)
(* (src/bioy_pkg/subcommands/classifier.py): selection of valid hits per    *)
(* query under rank thresholds, condensation of the selected tax_ids into   *)
(* at most max_group_size groups, assignment hashes, starring, compound     *)
(* assignment names, the "[no blast result]" rows and the summary; and of   *)
(* the "classify" subcommand (src/bioy_pkg/subcommands/classify.py).        *)
(***************************************************************************)
EXTENDS Integers, Sequences, FiniteSets, TLC

\* pandas NaN: a missing cell of a numeric or tax_id column (all values of
\* these columns are non-negative)
NULL == 0 - 1

\* Python None / a missing cell of a text column
NONE == "None"

\* find_tax_id's found.index.values[0] on an empty selection raises
IndexError == 0 - 2

(***************************************************************************)
(* 64-bit machine words (CPython 2.7 on LP64: a C long), little-endian      *)
(* sequences of 8 bytes; the hash of line 296 is computed in this width.    *)
(***************************************************************************)
RECURSIVE BytesOf(_, _)
BytesOf(n, k) ==
    IF k = 0 THEN <<>> ELSE <<n % 256>> \o BytesOf(n \div 256, k - 1)

W64(n) == BytesOf(n, 8)

RECURSIVE XorByte(_, _)
XorByte(a, b) ==
    IF a = 0 THEN b
    ELSE IF b = 0 THEN a
    ELSE ((a + b) % 2) + 2 * XorByte(a \div 2, b \div 2)

Xor64(x, y) == [i \in 1..8 |-> XorByte(x[i], y[i])]

Shl16(x) == <<0, 0>> \o SubSeq(x, 1, 6)

RECURSIVE ColumnSum(_, _, _, _)
\* sum of x[i] * y[k + 1 - i] for i in 1..k
ColumnSum(x, y, k, i) ==
    IF i > k THEN 0 ELSE x[i] * y[k + 1 - i] + ColumnSum(x, y, k, i + 1)

RECURSIVE MulFrom(_, _, _, _)
MulFrom(x, y, k, carry) ==
    IF k > 8 THEN <<>>
    ELSE LET s == carry + ColumnSum(x, y, k, 1)
         IN  <<s % 256>> \o MulFrom(x, y, k + 1, s \div 256)

\* x * y modulo 2^64
Mul64(x, y) == MulFrom(x, y, 1, 0)

RECURSIVE AddFrom(_, _, _, _)
AddFrom(x, y, k, carry) ==
    IF k > 8 THEN <<>>
    ELSE LET s == carry + x[k] + y[k]
         IN  <<s % 256>> \o AddFrom(x, y, k + 1, s \div 256)

\* x + y modulo 2^64
Add64(x, y) == AddFrom(x, y, 1, 0)

\* the word -1
MinusOne64 == [i \in 1..8 |-> 255]

(***************************************************************************)
(* hash(frozenset(...)) of line 296, as CPython 2.7 computes it for a set   *)
(* of str objects (tax_ids are read with dtype=str): the string hash of     *)
(* each element, combined by the frozenset hash (an XOR of scrambled        *)
(* element hashes, so independent of the iteration order).                  *)
(***************************************************************************)
RECURSIVE Digits(_)
\* the bytes of str(n) for a tax_id written in decimal; ord('0') = 48
Digits(n) ==
    IF n < 10 THEN <<48 + n>> ELSE Digits(n \div 10) \o <<48 + (n % 10)>>

RECURSIVE StringHashLoop(_, _, _)
StringHashLoop(s, i, x) ==
    IF i > Len(s) THEN x
    ELSE StringHashLoop(s, i + 1, Xor64(Mul64(W64(1000003), x), W64(s[i])))

\* string_hash: x = s[0] << 7; x = (1000003 * x) ^ c for each c; x ^= len(s)
string_hash(s) ==
    IF Len(s) = 0 THEN W64(0)
    ELSE LET x == Xor64(StringHashLoop(s, 1, W64(s[1] * 128)), W64(Len(s)))
         IN  IF x = MinusOne64 THEN <<254>> \o SubSeq(MinusOne64, 2, 8) ELSE x

\* the entry scrambling of frozenset_hash: (h ^ (h << 16) ^ 89869747) * 3644798167
ScrambleEntry(h) ==
    Mul64(Xor64(Xor64(h, Shl16(h)), W64(89869747)),
          <<215, 52, 63, 217, 0, 0, 0, 0>>)

RECURSIVE XorEntries(_, _, _)
XorEntries(hs, i, acc) ==
    IF i > Len(hs) THEN acc
    ELSE XorEntries(hs, i + 1, Xor64(acc, ScrambleEntry(hs[i])))

\* frozenset_hash over the element hashes hs, taken in iteration order
frozenset_hash(hs) ==
    LET h0 == Mul64(W64(1927868237), W64(Len(hs) + 1))
        h1 == XorEntries(hs, 1, h0)
        h2 == Add64(Mul64(h1, W64(69069)), W64(907133923))
    IN  IF h2 = MinusOne64 THEN W64(590923713) ELSE h2


(***************************************************************************)
(* The input tables.  Tax_ids are decimal numbers read as text.             *)
(***************************************************************************)
Range(f) == {f[i] : i \in DOMAIN f}

\* taxonomy.columns from 'root' on, least specific first (lines 594-595)
ranks == <<"root", "genus", "species">>

\* the taxonomy table of line 587: two genera with two species each, one
\* genus with four species, one species whose genus cell is empty, the
\* root, one species whose genus and root cells are empty and one row whose
\* rank cells are all empty
taxonomy ==
    (1        :> [rank |-> "root", tax_name |-> "root",
                  root |-> 1, genus |-> NULL, species |-> NULL]) @@
    (10       :> [rank |-> "genus", tax_name |-> "Ga",
                  root |-> 1, genus |-> 10, species |-> NULL]) @@
    (20       :> [rank |-> "genus", tax_name |-> "Gb",
                  root |-> 1, genus |-> 20, species |-> NULL]) @@
    (315675   :> [rank |-> "species", tax_name |-> "Ga a",
                  root |-> 1, genus |-> 10, species |-> 315675]) @@
    (8394651  :> [rank |-> "species", tax_name |-> "Ga b",
                  root |-> 1, genus |-> 10, species |-> 8394651]) @@
    (13068847 :> [rank |-> "species", tax_name |-> "Gb c",
                  root |-> 1, genus |-> 20, species |-> 13068847]) @@
    (18986076 :> [rank |-> "species", tax_name |-> "Gb d",
                  root |-> 1, genus |-> 20, species |-> 18986076]) @@
    (5        :> [rank |-> "species", tax_name |-> "e",
                  root |-> 1, genus |-> NULL, species |-> 5]) @@
    (30       :> [rank |-> "genus", tax_name |-> "Gc",
                  root |-> 1, genus |-> 30, species |-> NULL]) @@
    (323848   :> [rank |-> "species", tax_name |-> "Gc f",
                  root |-> 1, genus |-> 30, species |-> 323848]) @@
    (8972135  :> [rank |-> "species", tax_name |-> "Gc g",
                  root |-> 1, genus |-> 30, species |-> 8972135]) @@
    (13188475 :> [rank |-> "species", tax_name |-> "Gc h",
                  root |-> 1, genus |-> 30, species |-> 13188475]) @@
    (19243626 :> [rank |-> "species", tax_name |-> "Gc i",
                  root |-> 1, genus |-> 30, species |-> 19243626]) @@
    (7        :> [rank |-> "species", tax_name |-> "n",
                  root |-> NULL, genus |-> NULL, species |-> 7]) @@
    (8        :> [rank |-> "no_rank", tax_name |-> "u",
                  root |-> NULL, genus |-> NULL, species |-> NULL])

TaxIds == DOMAIN taxonomy

\* seq_info of line 566: reference sequence name -> tax_id; tax_id 999 is
\* not in the taxonomy table
seq_info ==
    [s \in {"ra", "rb", "rc", "rd", "re", "rGa", "rGb", "rf", "rg", "rh", "ri",
             "ry", "rn", "ru"} |->
        CASE s = "ra" -> 315675
          [] s = "rb" -> 8394651
          [] s = "rc" -> 13068847
          [] s = "rd" -> 18986076
          [] s = "re" -> 5
          [] s = "rGa" -> 10
          [] s = "rGb" -> 20
          [] s = "rf" -> 323848
          [] s = "rg" -> 8972135
          [] s = "rh" -> 13188475
          [] s = "ri" -> 19243626
          [] s = "ry" -> 999
          [] s = "rn" -> 7
          [] s = "ru" -> 8]

\* the rank thresholds table of line 608 (tax_id -> threshold per rank);
\* tax_id 20 has no row, 13068847 and 18986076 have a species threshold only
rank_thresholds ==
    (315675   :> [root |-> 0, genus |-> 95, species |-> 97]) @@
    (8394651  :> [root |-> 0, genus |-> 95, species |-> 97]) @@
    (13068847 :> [root |-> NULL, genus |-> NULL, species |-> 97]) @@
    (18986076 :> [root |-> NULL, genus |-> NULL, species |-> 97]) @@
    (5        :> [root |-> 0, genus |-> 95, species |-> 97]) @@
    (10       :> [root |-> 0, genus |-> 96, species |-> 97]) @@
    (323848   :> [root |-> 0, genus |-> 95, species |-> 97]) @@
    (8972135  :> [root |-> 0, genus |-> 95, species |-> 97]) @@
    (13188475 :> [root |-> 0, genus |-> 95, species |-> 97]) @@
    (19243626 :> [root |-> 0, genus |-> 95, species |-> 97]) @@
    (7        :> [root |-> 0, genus |-> 95, species |-> 97]) @@
    (8        :> [root |-> 0, genus |-> 95, species |-> 97])

\* pident values of the alignment rows
Pidents == {96, 98, 100}

Reverse(s) == [i \in 1..Len(s) |-> s[Len(s) + 1 - i]]

IndexOf(s, x) == CHOOSE i \in 1..Len(s) : s[i] = x

(***************************************************************************)
(* Hit selection, lines 330-378.  A row is a record with the blast columns  *)
(* and tax_id; its rank columns (join of line 600) and threshold columns    *)
(* (left join of line 622) are looked up in the tables.                     *)
(***************************************************************************)
\* the row's cell in rank column r
TaxAt(h, r) == taxonomy[h.tax_id][r]

\* mutant: missing thresholds filled with 0 after the join of line 622
ThresholdOf_fillna(h, r) ==
    IF h.tax_id \in DOMAIN rank_thresholds /\ rank_thresholds[h.tax_id][r] # NULL
    THEN rank_thresholds[h.tax_id][r] ELSE 0

\* the row's cell in column '<r>_threshold': NaN without a thresholds row
ThresholdOf(h, r) ==
    IF h.tax_id \in DOMAIN rank_thresholds
    THEN rank_thresholds[h.tax_id][r] ELSE NULL

\* mutant: the comparison of line 357 made inclusive
passes_inclusive(h, r) ==
    LET t == ThresholdOf(h, r) IN t # NULL /\ t <= h.pident

\* thresholds < pidents (line 357); a comparison with NaN is False
passes(h, r) ==
    LET t == ThresholdOf(h, r) IN t # NULL /\ t < h.pident

\* find_tax_id (lines 330-341); rks is the reversed rank list
find_tax_id(h, valids, r, rks) ==
    LET index == IndexOf(rks, r)
        series == SelectSeq(SubSeq(rks, index, Len(rks)),
                            LAMBDA k : TaxAt(h, k) # NULL)
    IN  IF series = <<>> THEN IndexError
        ELSE LET key == Head(series)
                 value == TaxAt(h, key)
             IN  IF value \notin {TaxAt(v, key) : v \in Range(valids)}
                 THEN value ELSE NULL

\* valid = df[thresholds < pidents] (line 357)
valid_at(df, r) == SelectSeq(df, LAMBDA h : passes(h, r))

\* have_ids = valid[tax_ids.notnull()] (line 370)
have_ids_at(df, r) == SelectSeq(valid_at(df, r), LAMBDA h : TaxAt(h, r) # NULL)

RECURSIVE return_index_no_continue(_, _, _)
\* mutant: the loop without the 'if na_ids.all(): continue' of lines 365-366
return_index_no_continue(df, rks, i) ==
    IF i > Len(rks) THEN 0
    ELSE IF valid_at(df, rks[i]) = <<>>
         THEN return_index_no_continue(df, rks, i + 1)
         ELSE i

RECURSIVE return_index(_, _, _)
\* the control of the loop of lines 354-366 from the i-th rank of rks on:
\* the index of the rank at which the loop returns, 0 when it falls through
return_index(df, rks, i) ==
    IF i > Len(rks) THEN 0
    ELSE IF valid_at(df, rks[i]) = <<>> \/ have_ids_at(df, rks[i]) = <<>>
         THEN return_index(df, rks, i + 1)
         ELSE i

\* mutant: the thresholds column of the first rank of the loop is kept for
\* the annotation
rows_at_first_threshold(df, rks, r) ==
    LET valid == valid_at(df, r)
        have_ids == have_ids_at(df, r)
        tax_ids == [j \in 1..Len(valid) |->
                       IF TaxAt(valid[j], r) # NULL
                       THEN TaxAt(valid[j], r)
                       ELSE find_tax_id(valid[j], have_ids, r, rks)]
        annotated == [j \in 1..Len(valid) |->
                         valid[j] @@
                         [assignment_tax_id |-> tax_ids[j],
                          assignment_threshold |-> ThresholdOf(valid[j], rks[1])]]
    IN  SelectSeq(annotated, LAMBDA h : h.assignment_tax_id # NULL)

\* the rows returned at rank r (lines 359-378)
rows_at(df, rks, r) ==
    LET valid == valid_at(df, r)
        have_ids == have_ids_at(df, r)
        tax_ids == [j \in 1..Len(valid) |->
                       IF TaxAt(valid[j], r) # NULL
                       THEN TaxAt(valid[j], r)
                       ELSE find_tax_id(valid[j], have_ids, r, rks)]
        annotated == [j \in 1..Len(valid) |->
                         valid[j] @@
                         [assignment_tax_id |-> tax_ids[j],
                          assignment_threshold |-> ThresholdOf(valid[j], r)]]
    IN  SelectSeq(annotated, LAMBDA h : h.assignment_tax_id # NULL)

\* the rank at which select_valid_hits returns, NONE when it returns None
return_rank(df, rks) ==
    LET i == return_index(df, rks, 1) IN IF i = 0 THEN NONE ELSE rks[i]

\* find_tax_id raises in the apply of lines 371-372: a valid row has no
\* tax_id at the returning rank nor at any less specific rank
raises_index_error(df, rks) ==
    LET r == return_rank(df, rks)
    IN  /\ r # NONE
        /\ \E h \in Range(valid_at(df, r)) :
              /\ TaxAt(h, r) = NULL
              /\ find_tax_id(h, have_ids_at(df, r), r, rks) = IndexError

\* select_valid_hits (lines 344-378); no row when the loop returns None
select_valid_hits(df, rks) ==
    LET r == return_rank(df, rks)
    IN  IF r = NONE THEN <<>> ELSE rows_at(df, rks, r)

(***************************************************************************)
(* Group condensation.  sequtils.condense_ids is called at lines 287-291;   *)
(* it is modelled from the specification of the Group Condenser (section    *)
(* 4.4): every member starts as its own group and, while there are more     *)
(* than max_size distinct groups, all members are promoted one rank level   *)
(* at a time, down to the least specific rank.  A member with an empty cell *)
(* at the level's rank keeps its own id at that level.                      *)
(***************************************************************************)
\* tax_dict of line 687: the member's ancestor at rank r
group_key(t, r) ==
    IF taxonomy[t][r] # NULL THEN taxonomy[t][r] ELSE t

DistinctGroups(keys) == Cardinality(Range(keys))

RECURSIVE promote_from(_, _, _)
\* level is an index into ranks, Len(ranks) the most specific
promote_from(ids, max_size, level) ==
    LET keys == [t \in ids |-> group_key(t, ranks[level])]
    IN  IF DistinctGroups(keys) <= max_size \/ level = 1
        THEN keys
        ELSE promote_from(ids, max_size, level - 1)

\* the nearest ancestor of t, root for root
parent_of(t) ==
    LET above == {i \in 1..Len(ranks) :
                     taxonomy[t][ranks[i]] # NULL /\ taxonomy[t][ranks[i]] # t}
    IN  IF above = {} THEN t
        ELSE taxonomy[t][ranks[CHOOSE i \in above : \A j \in above : j <= i]]

\* mutant: every member is promoted to its parent before the first count
sequtils_condense_ids_promote_first(ids, max_size) ==
    LET up == [t \in ids |-> parent_of(t)]
    IN  IF DistinctGroups(up) <= max_size THEN up ELSE [t \in ids |-> 1]

\* sequtils.condense_ids(assignments, taxonomy, ranks, max_size): a mapping
\* from each assignment tax_id to its condensed id
sequtils_condense_ids(ids, max_size) ==
    IF Cardinality(ids) <= max_size
    THEN [t \in ids |-> t]
    ELSE promote_from(ids, max_size, Len(ranks))

RECURSIVE unique(_)
\* Series.unique(): the distinct values in order of first appearance
unique(s) ==
    IF s = <<>> THEN <<>>
    ELSE LET u == unique(SubSeq(s, 1, Len(s) - 1))
             x == s[Len(s)]
         IN  IF x \in Range(u) THEN u ELSE Append(u, x)

\* the Python hash of each tax_id's text
ElementHash == [t \in TaxIds |-> string_hash(Digits(t))]

RECURSIVE TupleEntries(_, _, _)
\* mutant helper: fold the element hashes in order
TupleEntries(hs, i, acc) ==
    IF i > Len(hs) THEN acc
    ELSE TupleEntries(hs, i + 1, Xor64(Mul64(acc, W64(1000003)), hs[i]))

\* mutant: the hash of the tuple of ids instead of the frozenset
assignment_hash_of_tuple(condensed_ids) ==
    TupleEntries([i \in 1..Len(condensed_ids) |-> ElementHash[condensed_ids[i]]],
                 1, W64(3430008))

\* hash(frozenset(condensed.condensed_id.unique())) (line 296)
assignment_hash_of(condensed_ids) ==
    frozenset_hash([i \in 1..Len(condensed_ids) |-> ElementHash[condensed_ids[i]]])

\* mutant: max_size one more than max_group_size
condensed_of_loose(df, max_group_size) ==
    sequtils_condense_ids(
        Range(unique([i \in 1..Len(df) |-> df[i].assignment_tax_id])),
        max_group_size + 1)

\* mutant: max_size one less than max_group_size
condensed_of_tight(df, max_group_size) ==
    sequtils_condense_ids(
        Range(unique([i \in 1..Len(df) |-> df[i].assignment_tax_id])),
        max_group_size - 1)

\* mutant: the two columns of the frame of lines 292-294 named in the other
\* order, so that the mapping goes from condensed id to assignment tax_id
condensed_of_swapped(df, max_group_size) ==
    LET ids == Range(unique([i \in 1..Len(df) |-> df[i].assignment_tax_id]))
        condensed == sequtils_condense_ids(ids, max_group_size)
    IN  [t \in ids |->
            IF \E a \in ids : condensed[a] = t
            THEN CHOOSE a \in ids : condensed[a] = t
            ELSE NULL]

\* the mapping built at lines 287-295 for the rows df of one specimen+query
condensed_of(df, max_group_size) ==
    sequtils_condense_ids(
        Range(unique([i \in 1..Len(df) |-> df[i].assignment_tax_id])),
        max_group_size)

\* condense_ids (lines 278-298): the rows of one specimen+query cluster
\* joined with their condensed_id and the cluster's assignment_hash
condense_ids(df, max_group_size) ==
    LET ids == unique([i \in 1..Len(df) |-> df[i].assignment_tax_id])
        condensed == condensed_of(df, max_group_size)
        hash == assignment_hash_of(
                    unique([i \in 1..Len(ids) |-> condensed[ids[i]]]))
    IN  [i \in 1..Len(df) |->
            df[i] @@ [condensed_id |-> condensed[df[i].assignment_tax_id],
                      assignment_hash |-> hash]]


(***************************************************************************)
(* The stages of action (lines 528-790) over whole tables.  A table is a    *)
(* sequence of rows; groupby(...).apply(f) applies f to the rows of each    *)
(* group and concatenates the results.                                      *)
(***************************************************************************)
RECURSIVE Concat(_)
Concat(ss) == IF ss = <<>> THEN <<>> ELSE Head(ss) \o Concat(Tail(ss))

\* df.groupby(by=key, sort=False, group_keys=False).apply(f)
GroupApply(df, key(_), f(_)) ==
    LET keys == unique([i \in 1..Len(df) |-> key(df[i])])
    IN  Concat([k \in 1..Len(keys) |->
                   f(SelectSeq(df, LAMBDA h : key(h) = keys[k]))])

\* raw_filtering (lines 201-248); an option that is None is NULL here, and
\* 'if option:' is also false for 0
raw_filtering(df, min_coverage, max_identity, min_identity) ==
    LET covered ==
            IF min_coverage # NULL /\ min_coverage # 0
            THEN SelectSeq(df, LAMBDA h : h.qcovs # NULL /\ h.qcovs >= min_coverage)
            ELSE df
        below_max ==
            IF max_identity # NULL /\ max_identity # 0
            THEN SelectSeq(covered, LAMBDA h : h.pident # NULL /\ h.pident <= max_identity)
            ELSE covered
    IN  IF min_identity # NULL /\ min_identity # 0
        THEN SelectSeq(below_max, LAMBDA h : h.pident # NULL /\ h.pident >= min_identity)
        ELSE below_max

\* lines 555-605: raw_filtering called with the table alone (line 555), rows
\* without a subject set aside, then the inner joins with seq_info and with
\* the taxonomy
joined_table(raw) ==
    LET hits == SelectSeq(raw_filtering(raw, NULL, NULL, NULL),
                          LAMBDA h : h.sseqid # NONE)
        in_seq_info == SelectSeq(hits, LAMBDA h : h.sseqid \in DOMAIN seq_info)
        with_tax_id == [i \in 1..Len(in_seq_info) |->
                           in_seq_info[i] @@
                           [tax_id |-> seq_info[in_seq_info[i].sseqid]]]
    IN  SelectSeq(with_tax_id, LAMBDA h : h.tax_id \in TaxIds)

\* lines 624-629: select_valid_hits per query, in the order of the table
\* sorted by qseqid
selected_table(joined) ==
    GroupApply(joined, LAMBDA h : h.qseqid,
               LAMBDA df : select_valid_hits(df, Reverse(ranks)))

\* lines 640-648: the rank of the assignment tax_id, from the taxonomy
with_assignment_rank(df) ==
    [i \in 1..Len(df) |->
        df[i] @@ [assignment_rank |-> taxonomy[df[i].assignment_tax_id].rank]]

\* the row that the outer join of line 651 adds for a query without any row
NoResultRow(q) ==
    [qseqid |-> q, sseqid |-> NONE, pident |-> NULL, tax_id |-> NULL,
     assignment_tax_id |-> NULL, assignment_threshold |-> NULL,
     assignment_rank |-> NONE]

\* line 651: merge the queries without a row back into the table
outer_joined(df, qs) ==
    LET present == {df[i].qseqid : i \in 1..Len(df)}
        missing == unique(SelectSeq(qs, LAMBDA q : q \notin present))
    IN  df \o [i \in 1..Len(missing) |-> NoResultRow(missing[i])]

\* lines 656-670: the specimen of query q, NONE when a specimen map is given
\* and does not list q
specimen_of(a, q) ==
    IF a.specimen_map.given
    THEN IF q \in DOMAIN a.specimen_map.map THEN a.specimen_map.map[q] ELSE NONE
    ELSE IF a.specimen # NONE THEN a.specimen
    ELSE q

\* line 675: the inner join with the specimen labels
with_specimens(df, a) ==
    LET labelled == SelectSeq(df, LAMBDA h : specimen_of(a, h.qseqid) # NONE)
    IN  [i \in 1..Len(labelled) |->
            labelled[i] @@ [specimen |-> specimen_of(a, labelled[i].qseqid)]]

\* lines 677-680
no_hits_of(df) ==
    LET rows == SelectSeq(df, LAMBDA h : h.sseqid = NONE)
    IN  [i \in 1..Len(rows) |->
            rows[i] @@ [assignment |-> "[no blast result]",
                        assignment_hash |-> W64(0)]]

\* lines 689-697: condense_ids per specimen and query
condensed_table(df, max_group_size) ==
    GroupApply(df, LAMBDA h : <<h.specimen, h.qseqid>>,
               LAMBDA g : condense_ids(g, max_group_size))

\* mutant: a pident equal to the threshold does not star
star_strict(df, starred) ==
    [i \in 1..Len(df) |->
        df[i] @@ [starred |-> \E j \in 1..Len(df) : df[j].pident > starred]]

\* star (lines 269-275)
star(df, starred) ==
    [i \in 1..Len(df) |->
        df[i] @@ [starred |-> \E j \in 1..Len(df) : df[j].pident >= starred]]

\* lines 700-703
starred_table(df, starred) ==
    GroupApply(df, LAMBDA h : <<h.specimen, h.assignment_hash, h.condensed_id>>,
               LAMBDA g : star(g, starred))

RECURSIVE JoinNames(_)
JoinNames(names) ==
    IF names = <<>> THEN ""
    ELSE IF Len(names) = 1 THEN names[1]
    ELSE names[1] \o ";" \o JoinNames(Tail(names))

RECURSIVE AscendingIds(_)
AscendingIds(S) ==
    IF S = {} THEN <<>>
    ELSE LET m == CHOOSE x \in S : \A y \in S : x <= y
         IN  <<m>> \o AscendingIds(S \ {m})

\* sequtils.compound_assignment(ids_stars, tax_dict), called at line 309; it
\* is modelled from the specification of the Assignment Labeler (section
\* 4.5): the names of the condensed ids in ascending order of tax_id, '*'
\* appended to the starred ones, joined by ';'
sequtils_compound_assignment(ids_stars) ==
    LET ids == AscendingIds({p[1] : p \in ids_stars})
    IN  JoinNames([i \in 1..Len(ids) |->
                      IF <<ids[i], TRUE>> \in ids_stars
                      THEN taxonomy[ids[i]].tax_name \o "*"
                      ELSE taxonomy[ids[i]].tax_name])

\* mutant: the names in the order of the rows
assign_in_row_order(df) ==
    LET ids == unique([i \in 1..Len(df) |-> df[i].condensed_id])
        starred_id(t) == \E i \in 1..Len(df) :
                             df[i].condensed_id = t /\ df[i].starred
    IN  [i \in 1..Len(df) |->
            df[i] @@ [assignment |->
                JoinNames([k \in 1..Len(ids) |->
                              IF starred_id(ids[k])
                              THEN taxonomy[ids[k]].tax_name \o "*"
                              ELSE taxonomy[ids[k]].tax_name])]]

\* assign (lines 301-310)
assign(df) ==
    LET ids_stars == {<<df[i].condensed_id, df[i].starred>> : i \in 1..Len(df)}
    IN  [i \in 1..Len(df) |->
            df[i] @@ [assignment |-> sequtils_compound_assignment(ids_stars)]]

RECURSIVE UnsignedLess(_, _, _)
\* x < y as unsigned words, comparing from byte k down
UnsignedLess(x, y, k) ==
    IF k = 0 THEN FALSE
    ELSE IF x[k] # y[k] THEN x[k] < y[k]
    ELSE UnsignedLess(x, y, k - 1)

\* x < y as signed 64-bit integers
HashLess(x, y) ==
    IF (x[8] >= 128) # (y[8] >= 128) THEN x[8] >= 128
    ELSE UnsignedLess(x, y, 8)

RECURSIVE sort_by_hash(_)
\* blast_results.sort('assignment_hash') (line 706)
sort_by_hash(df) ==
    IF df = <<>> THEN <<>>
    ELSE LET init == sort_by_hash(SubSeq(df, 1, Len(df) - 1))
             x == df[Len(df)]
             before == SelectSeq(init, LAMBDA h :
                           ~HashLess(x.assignment_hash, h.assignment_hash))
             after == SelectSeq(init, LAMBDA h :
                          HashLess(x.assignment_hash, h.assignment_hash))
         IN  before \o <<x>> \o after

\* lines 705-711
assigned_table(df) ==
    GroupApply(sort_by_hash(df), LAMBDA h : <<h.specimen, h.assignment_hash>>,
               LAMBDA g : assign(g))

\* lines 738-748: the weight of query q
RECURSIVE GCD(_, _)
GCD(a, b) == IF b = 0 THEN a ELSE GCD(b, a % b)

\* the number n/d (floats of the program that are fractions in the model)
Q(n, d) == [num |-> n \div GCD(n, d), den |-> d \div GCD(n, d)]

QAdd(x, y) ==
    LET g == GCD(x.den, y.den)
    IN  Q(x.num * (y.den \div g) + y.num * (x.den \div g), (x.den \div g) * y.den)

QDiv(x, y) == Q(x.num * y.den, x.den * y.num)

QLess(x, y) ==
    LET g == GCD(x.den, y.den)
    IN  x.num * (y.den \div g) < y.num * (x.den \div g)

\* math.ceil (line 768)
ceil(x) == (x.num + x.den - 1) \div x.den

\* mutant: rounded down
round_down(x) == x.num \div x.den

\* round (line 775): halves are rounded away from zero
round(x) == (2 * x.num + x.den) \div (2 * x.den)

\* mutant: any x < 1 is raised to 1
round_up_to_one(x) == IF QLess(x, Q(1, 1)) THEN Q(1, 1) ELSE x

\* round_up (lines 251-254)
round_up(x) == IF QLess(x, Q(1, 100)) THEN Q(1, 100) ELSE x

\* pct (lines 390-394), for one member x of a series that sums to total
pct(x, total) == LET share == QDiv(x, total) IN Q(100 * share.num, share.den)

\* lines 738-748: the weight of query q, 1.0 without an entry
weight_of(a, q) ==
    IF a.weights.given /\ q \in DOMAIN a.weights.map
    THEN a.weights.map[q]
    ELSE Q(1, 1)

RECURSIVE SumWeights(_, _)
\* lines 750-756: the sum of the weights of the queries qs
SumWeights(a, qs) ==
    IF qs = {} THEN Q(0, 1)
    ELSE LET q == CHOOSE x \in qs : TRUE
         IN  QAdd(weight_of(a, q), SumWeights(a, qs \ {q}))

\* mutant: the first of the sorted ranks instead of the last
target_rank_first(s, rks) ==
    LET position(x) == IF x \in Range(rks) THEN IndexOf(rks, x) - 1 ELSE 0 - 1
        first == CHOOSE i \in 1..Len(s) :
                     \A j \in 1..Len(s) : position(s[i]) <= position(s[j])
    IN  s[first]

\* target_rank (lines 322-327): the ranks s of a group indexed by their
\* position in ranks (-1 when not a rank) and sorted; the last one
target_rank(s, rks) ==
    LET position(x) == IF x \in Range(rks) THEN IndexOf(rks, x) - 1 ELSE 0 - 1
        last == CHOOSE i \in 1..Len(s) :
                    \A j \in 1..Len(s) : position(s[j]) <= position(s[i])
    IN  s[last]

\* the rows of the group of specimen sp and assignment_hash h
group_rows(df, sp, h) ==
    SelectSeq(df, LAMBDA r : r.specimen = sp /\ r.assignment_hash = h)

\* the distinct queries of the group
group_queries(df, sp, h) ==
    {group_rows(df, sp, h)[i].qseqid : i \in 1..Len(group_rows(df, sp, h))}

\* line 722: the distinct (specimen, assignment_hash, assignment) rows
output_index(df) ==
    {<<df[i].specimen, df[i].assignment_hash, df[i].assignment>> : i \in 1..Len(df)}

\* mutant: 1.0 for a tax_id without a row
median_of_one(copy_numbers, t) ==
    IF t \in DOMAIN copy_numbers THEN copy_numbers[t] ELSE Q(1, 1)

\* the copy number of tax_id t: its median, or the root's (lines 419-430)
median_of(copy_numbers, t) ==
    IF t \in DOMAIN copy_numbers THEN copy_numbers[t] ELSE copy_numbers[1]

RECURSIVE SumMedians(_, _)
SumMedians(copy_numbers, ids) ==
    IF ids = {} THEN Q(0, 1)
    ELSE LET t == CHOOSE x \in ids : TRUE
         IN  QAdd(median_of(copy_numbers, t), SumMedians(copy_numbers, ids \ {t}))

\* copy_corrections (lines 423-434): the mean copy number over the distinct
\* assignment tax_ids of the group
copy_corrections(copy_numbers, df, sp, h) ==
    LET ids == {group_rows(df, sp, h)[i].assignment_tax_id :
                   i \in 1..Len(group_rows(df, sp, h))}
    IN  QDiv(SumMedians(copy_numbers, ids), Q(Cardinality(ids), 1))

\* mutant: the reads rounded before the division
corrected_of_rounded_reads(df, a, sp, h) ==
    ceil(QDiv(Q(round(SumWeights(a, group_queries(df, sp, h))), 1),
              copy_corrections(a.copy_numbers.map, df, sp, h)))

\* lines 766-769: reads / corrections, rounded up to a whole count
corrected_of(df, a, sp, h) ==
    ceil(QDiv(SumWeights(a, group_queries(df, sp, h)),
              copy_corrections(a.copy_numbers.map, df, sp, h)))

RECURSIVE SumReads(_, _, _)
\* s.sum() of pct over the reads of the output rows ks of one specimen
SumReads(df, a, ks) ==
    IF ks = {} THEN Q(0, 1)
    ELSE LET k == CHOOSE x \in ks : TRUE
         IN  QAdd(SumWeights(a, group_queries(df, k[1], k[2])),
                  SumReads(df, a, ks \ {k}))

RECURSIVE SumCorrected(_, _, _)
\* s.sum() of pct over the corrected counts of the output rows ks
SumCorrected(df, a, ks) ==
    IF ks = {} THEN 0
    ELSE LET k == CHOOSE x \in ks : TRUE
         IN  corrected_of(df, a, k[1], k[2]) + SumCorrected(df, a, ks \ {k})

\* lines 720-776: one row per specimen, assignment_hash and assignment, with
\* the statistics of the group of its specimen and assignment_hash
summary(df, a) ==
    {LET sp == k[1]
         h == k[2]
         of_specimen == {x \in output_index(df) : x[1] = sp}
         reads == SumWeights(a, group_queries(df, sp, h))
         ranks_of_group == [i \in 1..Len(group_rows(df, sp, h)) |->
                               group_rows(df, sp, h)[i].assignment_rank]
     IN  [specimen |-> sp,
          assignment_hash |-> h,
          assignment |-> k[3],
          target_rank |-> target_rank(ranks_of_group, ranks),
          reads |-> round(reads),
          pct_reads |-> round_up(pct(reads, SumReads(df, a, of_specimen))),
          clusters |-> Cardinality(group_queries(df, sp, h)),
          corrected |-> IF a.copy_numbers.given
                        THEN corrected_of(df, a, sp, h) ELSE NULL,
          pct_corrected |->
              IF a.copy_numbers.given
              THEN round_up(pct(Q(corrected_of(df, a, sp, h), 1),
                                Q(SumCorrected(df, a, of_specimen), 1)))
              ELSE Q(0, 1)]
     : k \in output_index(df)}


\* the characters of the labels, in the order of their byte values
Alphabet == " *123;G[]abcdefghilnoqrstu"

ord(c) == CHOOSE i \in 1..Len(Alphabet) : SubSeq(Alphabet, i, i) = c

RECURSIVE StringLess(_, _)
\* x < y for two str values
StringLess(x, y) ==
    IF y = "" THEN FALSE
    ELSE IF x = "" THEN TRUE
    ELSE IF Head(x) # Head(y) THEN ord(Head(x)) < ord(Head(y))
    ELSE StringLess(Tail(x), Tail(y))

\* lines 783-784: the first sort column
sort_count(a, r) == IF a.copy_numbers.given THEN r.corrected ELSE r.reads

\* mutant: the labels in ascending order
sorted_before_label_ascending(a, x, y) ==
    \/ sort_count(a, x) > sort_count(a, y)
    \/ /\ sort_count(a, x) = sort_count(a, y)
       /\ \/ x.clusters > y.clusters
          \/ /\ x.clusters = y.clusters
             /\ \/ StringLess(x.assignment, y.assignment)
                \/ /\ x.assignment = y.assignment
                   /\ HashLess(x.assignment_hash, y.assignment_hash)

\* lines 785-787: row x comes before row y of the same specimen after
\* output.sort(columns, ascending=False) and the sort by specimen; rows equal
\* in the three columns keep the order of line 722 (by assignment_hash)
sorted_before(a, x, y) ==
    \/ sort_count(a, x) > sort_count(a, y)
    \/ /\ sort_count(a, x) = sort_count(a, y)
       /\ \/ x.clusters > y.clusters
          \/ /\ x.clusters = y.clusters
             /\ \/ StringLess(y.assignment, x.assignment)
                \/ /\ x.assignment = y.assignment
                   /\ HashLess(x.assignment_hash, y.assignment_hash)

\* mutant: the rows numbered across the specimens
numbered_output_global(out, a) ==
    {[specimen |-> r.specimen,
      assignment_id |-> Cardinality({x \in out :
                           \/ StringLess(x.specimen, r.specimen)
                           \/ /\ x.specimen = r.specimen
                              /\ sorted_before(a, x, r)}),
      assignment |-> r.assignment,
      target_rank |-> r.target_rank,
      reads |-> r.reads,
      pct_reads |-> r.pct_reads,
      clusters |-> r.clusters,
      corrected |-> r.corrected,
      pct_corrected |-> r.pct_corrected]
     : r \in out}

\* lines 785-790: the summary rows without their assignment_hash, numbered
\* within their specimen in sorted order (assignment_id)
numbered_output(out, a) ==
    {[specimen |-> r.specimen,
      assignment_id |-> Cardinality({x \in out : /\ x.specimen = r.specimen
                                                 /\ sorted_before(a, x, r)}),
      assignment |-> r.assignment,
      target_rank |-> r.target_rank,
      reads |-> r.reads,
      pct_reads |-> r.pct_reads,
      clusters |-> r.clusters,
      corrected |-> r.corrected,
      pct_corrected |-> r.pct_corrected]
     : r \in out}


(***************************************************************************)
(* State.                                                                   *)
(***************************************************************************)
VARIABLES
    pc,         \* the position of the run
    sel_df,     \* select_valid_hits: the rows of one query
    sel_rank,   \* select_valid_hits: the rank at which it returned
    sel_out,    \* select_valid_hits: the rows returned
    cnd_df,     \* condense_ids: the rows of one specimen+query cluster
    cnd_size,   \* condense_ids: max_group_size
    cnd_out,    \* condense_ids: assignment tax_id -> condensed id
    cnd_again,  \* the condensed ids condensed once more
    args,           \* action: the command line options
    qseqids,        \* action: the query ids of the hit table as read
    blast_results,  \* action: the working table
    no_hits,        \* action: the rows of the queries without a valid hit
    output,         \* action: the summary rows
    thr_user,       \* rank thresholds: the file of --rank-thresholds
    thr_out,        \* rank thresholds: the table of tax_id -> thresholds
    thr_joined,     \* rank thresholds: rows joined with their thresholds
    cnd_level,      \* condenser loop: the rank level of the group keys
    cnd_keys,       \* condenser loop: assignment tax_id -> group key
    leg_args,       \* classify: the command line options
    leg_hits,       \* classify: the rows of the blast file
    leg_rest,       \* classify: the filtered rows not yet grouped
    leg_out         \* classify: the blocks of rows written so far

vars == <<pc, sel_df, sel_rank, sel_out, cnd_df, cnd_size, cnd_out, cnd_again,
          args, qseqids, blast_results, no_hits, output,
          thr_user, thr_out, thr_joined, cnd_level, cnd_keys,
          leg_args, leg_hits, leg_rest, leg_out>>

sel_vars == <<sel_df, sel_rank, sel_out>>
cnd_vars == <<cnd_df, cnd_size, cnd_out, cnd_again>>
run_vars == <<args, qseqids, blast_results, no_hits, output>>
thr_vars == <<thr_user, thr_out, thr_joined>>
loop_vars == <<cnd_level, cnd_keys>>
leg_vars == <<leg_args, leg_hits, leg_rest, leg_out>>
ext_vars == <<thr_vars, loop_vars, leg_vars>>

\* bounds of the model
MaxHits == 3
MaxGroupSize == 3

SeqsUpTo(S, n) == UNION {[1..k -> S] : k \in 1..n}

\* a joined blast row of query q: reference sequence s at identity p
Row(q, s, p) == [qseqid |-> q, sseqid |-> s, pident |-> p, tax_id |-> seq_info[s]]

SelIdle == sel_df = <<>> /\ sel_rank = NONE /\ sel_out = <<>>
CndIdle == cnd_df = <<>> /\ cnd_size = 0 /\ cnd_out = <<>> /\ cnd_again = <<>>
RunIdle ==
    /\ args = <<>> /\ qseqids = <<>> /\ blast_results = <<>>
    /\ no_hits = <<>> /\ output = {}
ThrIdle == thr_user = <<>> /\ thr_out = <<>> /\ thr_joined = <<>>
LoopIdle == cnd_level = 0 /\ cnd_keys = <<>>
LegIdle ==
    leg_args = <<>> /\ leg_hits = <<>> /\ leg_rest = <<>> /\ leg_out = <<>>
ExtIdle == ThrIdle /\ LoopIdle /\ LegIdle

(***************************************************************************)
(* select_valid_hits applied to the rows of one query.                      *)
(***************************************************************************)
\* the reference sequences of the hits given to select_valid_hits
SelectRefs == {"ra", "rb", "rc", "rd", "re", "rGa", "rGb"}

InitSelect ==
    /\ pc = "select"
    /\ sel_df \in SeqsUpTo({Row("q1", s, p) : s \in SelectRefs, p \in Pidents},
                           MaxHits)
    /\ sel_rank = NONE
    /\ sel_out = <<>>
    /\ CndIdle
    /\ RunIdle
    /\ ExtIdle

SelectValidHits ==
    /\ pc = "select"
    /\ sel_rank' = return_rank(sel_df, Reverse(ranks))
    /\ IF raises_index_error(sel_df, Reverse(ranks))
       THEN /\ sel_out' = <<>>
            /\ pc' = "IndexError"
       ELSE /\ sel_out' = select_valid_hits(sel_df, Reverse(ranks))
            /\ pc' = "selected"
    /\ UNCHANGED <<sel_df, cnd_vars, run_vars, ext_vars>>

NextSelect == SelectValidHits

SpecSelect == InitSelect /\ [][NextSelect]_vars


(***************************************************************************)
(* Properties of the Hit Selector, stated from the tables alone.            *)
(***************************************************************************)
\* the ranks, most specific first
BySpecificity == Reverse(ranks)

MinOf(S) == CHOOSE x \in S : \A y \in S : x <= y

\* the blast columns of a returned row
InputRow(row) ==
    [qseqid |-> row.qseqid, sseqid |-> row.sseqid,
     pident |-> row.pident, tax_id |-> row.tax_id]

\* the hit has a threshold at rank r and its pident is above it
ExceedsThreshold(h, r) ==
    /\ h.tax_id \in DOMAIN rank_thresholds
    /\ rank_thresholds[h.tax_id][r] # NULL
    /\ h.pident > rank_thresholds[h.tax_id][r]

\* the hit has no threshold at rank r
NoThreshold(h, r) ==
    h.tax_id \notin DOMAIN rank_thresholds \/ rank_thresholds[h.tax_id][r] = NULL

\* the most specific rank at which some hit of df passes its threshold, or NONE
MostSpecificPassing(df) ==
    LET I == {i \in 1..Len(BySpecificity) :
                 \E h \in Range(df) : ExceedsThreshold(h, BySpecificity[i])}
    IN  IF I = {} THEN NONE ELSE BySpecificity[MinOf(I)]

\* the most specific rank at which some hit of df passes its threshold and
\* has a tax_id, or NONE
MostSpecificPassingWithId(df) ==
    LET I == {i \in 1..Len(BySpecificity) :
                 \E h \in Range(df) :
                    /\ ExceedsThreshold(h, BySpecificity[i])
                    /\ taxonomy[h.tax_id][BySpecificity[i]] # NULL}
    IN  IF I = {} THEN NONE ELSE BySpecificity[MinOf(I)]

\* the hit's tax_id at rank r or, without one, at the next less specific
\* rank where it has one
FirstIdFrom(h, r) ==
    LET I == {i \in IndexOf(BySpecificity, r)..Len(BySpecificity) :
                 taxonomy[h.tax_id][BySpecificity[i]] # NULL}
    IN  taxonomy[h.tax_id][BySpecificity[MinOf(I)]]

Returned(h) == \E j \in 1..Len(sel_out) : InputRow(sel_out[j]) = h

\* C1 as stated: every returned assignment_tax_id is the hit's tax_id at the
\* most specific rank at which any hit of the query passes its threshold,
\* and no returned hit fails its threshold at that rank.
C1_AsClaimed ==
    pc = "selected" =>
        LET R == MostSpecificPassing(sel_df)
        IN  \A j \in 1..Len(sel_out) :
                /\ R # NONE
                /\ ExceedsThreshold(sel_out[j], R)
                /\ sel_out[j].assignment_tax_id = taxonomy[sel_out[j].tax_id][R]

\* C1 amended: with R the most specific rank at which some hit of the query
\* passes its threshold and has a tax_id, every returned hit passes its
\* threshold at R (a hit failing at R is never returned, even if it passes
\* at a less specific rank), and its assignment_tax_id is its tax_id at R
\* or, when it has none at R, its tax_id at the next less specific rank
\* where it has one; without such a rank nothing is returned.
C1_MostSpecificRank ==
    pc = "selected" =>
        LET R == MostSpecificPassingWithId(sel_df)
        IN  /\ R = NONE => sel_out = <<>>
            /\ \A j \in 1..Len(sel_out) :
                   /\ ExceedsThreshold(sel_out[j], R)
                   /\ sel_out[j].assignment_tax_id = FirstIdFrom(sel_out[j], R)

\* a query selected at species with a hit that fails there, passes at genus
\* and is not returned, and a returned hit bumped to a less specific id
C1_Witness ==
    /\ pc = "selected"
    /\ sel_rank = "species"
    /\ \E h \in Range(sel_df) :
          /\ ~ExceedsThreshold(h, "species")
          /\ ExceedsThreshold(h, "genus")
          /\ ~Returned(h)
    /\ \E j \in 1..Len(sel_out) :
          sel_out[j].assignment_tax_id # taxonomy[sel_out[j].tax_id]["species"]

\* C2 as stated: the selector returns at the most specific rank whose valid
\* set (hits with pident above threshold) is not empty, with hits of that
\* set only.
C2_AsClaimed ==
    pc = "selected" =>
        LET R == MostSpecificPassing(sel_df)
        IN  /\ sel_rank = R
            /\ \A j \in 1..Len(sel_out) : ExceedsThreshold(sel_out[j], R)

\* C2 amended: the scan is first-match-wins over the ranks, most specific
\* first, where a rank matches when its valid set contains a hit with a
\* tax_id at that rank: the selector returns at the first such rank, every
\* returned hit belongs to that rank's valid set and has a non-null
\* assignment_tax_id, every valid hit with a tax_id at that rank is
\* returned, and no hit that is valid only at a less specific rank is.
C2_FirstMatchWins ==
    pc = "selected" =>
        LET R == MostSpecificPassingWithId(sel_df)
        IN  /\ sel_rank = R
            /\ R = NONE => sel_out = <<>>
            /\ \A j \in 1..Len(sel_out) :
                   /\ ExceedsThreshold(sel_out[j], R)
                   /\ sel_out[j].assignment_tax_id \in TaxIds
            /\ R # NONE =>
                   \A h \in Range(sel_df) :
                       ExceedsThreshold(h, R) /\ taxonomy[h.tax_id][R] # NULL
                           => Returned(h)

\* a return at species with a valid set that is a strict subset of the hits,
\* one of the others being valid at genus
C2_Witness ==
    /\ pc = "selected"
    /\ sel_rank = "species"
    /\ sel_out # <<>>
    /\ Len(sel_out) < Len(sel_df)
    /\ \E h \in Range(sel_df) : ExceedsThreshold(h, "genus") /\ ~Returned(h)

\* C3 as stated: a valid hit without a tax_id at the returning rank R is
\* returned with the tax_id of the next less specific rank where it has
\* one, unless that id is among the tax_ids that the other valid hits have
\* at rank R, in which case it is not returned.
C3_AsClaimed ==
    pc = "selected" /\ sel_rank # NONE =>
        \A h \in Range(sel_df) :
            ExceedsThreshold(h, sel_rank) /\ taxonomy[h.tax_id][sel_rank] = NULL =>
                LET adopted == FirstIdFrom(h, sel_rank)
                    direct == {taxonomy[v.tax_id][sel_rank] :
                                  v \in {w \in Range(sel_df) :
                                            /\ ExceedsThreshold(w, sel_rank)
                                            /\ taxonomy[w.tax_id][sel_rank] # NULL}}
                IN  IF adopted \notin direct
                    THEN \E j \in 1..Len(sel_out) :
                            /\ InputRow(sel_out[j]) = h
                            /\ sel_out[j].assignment_tax_id = adopted
                    ELSE ~Returned(h)

\* C4 as stated: a hit without a threshold at a rank passes that rank's
\* validity test whatever its pident.
C4_AsClaimed ==
    pc = "selected" =>
        \A h \in Range(sel_df) : \A i \in 1..Len(ranks) :
            NoThreshold(h, ranks[i]) => passes(h, ranks[i])

\* C4 amended: a hit without a threshold at a rank never passes that rank's
\* validity test: no hit is returned at a rank where it has no threshold,
\* every returned hit carries a (non-null) assignment_threshold, and a
\* query whose hits pass no rank at which they have a threshold gets no
\* valid hit.
C4_MissingThresholdFails ==
    pc = "selected" =>
        /\ \A h \in Range(sel_df) : \A i \in 1..Len(ranks) :
               NoThreshold(h, ranks[i]) => ~passes(h, ranks[i])
        /\ \A j \in 1..Len(sel_out) :
               /\ ~NoThreshold(sel_out[j], sel_rank)
               /\ sel_out[j].assignment_threshold # NULL
        /\ (\A h \in Range(sel_df) : \A i \in 1..Len(ranks) :
               ~ExceedsThreshold(h, ranks[i])) => sel_out = <<>>

\* a query whose only hits lack thresholds at the ranks below species and
\* are under their species threshold: nothing is returned
C4_Witness ==
    /\ pc = "selected"
    /\ sel_out = <<>>
    /\ \A h \in Range(sel_df) :
          /\ NoThreshold(h, "genus") /\ NoThreshold(h, "root")
          /\ ~NoThreshold(h, "species")


(***************************************************************************)
(* condense_ids applied to the rows of one specimen+query cluster, and      *)
(* applied once more to the condensed ids it produced.                      *)
(***************************************************************************)
RECURSIVE Ascending(_)
\* the members of a set of numbers as an ascending sequence
Ascending(S) ==
    IF S = {} THEN <<>> ELSE <<MinOf(S)>> \o Ascending(S \ {MinOf(S)})

\* rows that carry the assignment tax_ids of S
RowsOf(S) == [i \in 1..Cardinality(S) |-> [assignment_tax_id |-> Ascending(S)[i]]]

\* the assignment tax_ids given to condense_ids
CondenseTaxIds == {1, 5, 10, 20, 315675, 8394651, 13068847, 18986076}

InitCondense ==
    /\ pc = "condense"
    /\ cnd_df \in {RowsOf(S) : S \in SUBSET CondenseTaxIds \ {{}}}
    /\ cnd_size \in 0..MaxGroupSize
    /\ cnd_out = <<>>
    /\ cnd_again = <<>>
    /\ SelIdle
    /\ RunIdle
    /\ ExtIdle

CondenseIds ==
    /\ pc = "condense"
    /\ cnd_out' = condensed_of(cnd_df, cnd_size)
    /\ pc' = "condensed"
    /\ UNCHANGED <<cnd_df, cnd_size, cnd_again, sel_vars, run_vars, ext_vars>>

CondenseAgain ==
    /\ pc = "condensed"
    /\ cnd_again' = condensed_of(RowsOf(Range(cnd_out)), cnd_size)
    /\ pc' = "recondensed"
    /\ UNCHANGED <<cnd_df, cnd_size, cnd_out, sel_vars, run_vars, ext_vars>>

NextCondense == CondenseIds \/ CondenseAgain

SpecCondense == InitCondense /\ [][NextCondense]_vars

(***************************************************************************)
(* Properties of the Group Condenser.                                       *)
(***************************************************************************)
CndIds == {cnd_df[i].assignment_tax_id : i \in 1..Len(cnd_df)}

\* t is tax_id a itself or the ancestor of a at some rank
SelfOrAncestor(t, a) ==
    t = a \/ \E i \in 1..Len(ranks) : taxonomy[a][ranks[i]] = t

\* the group of member a once all members are promoted to rank r
PromotedTo(a, r) == IF taxonomy[a][r] = NULL THEN a ELSE taxonomy[a][r]

GroupsAt(S, r) == {PromotedTo(a, r) : a \in S}

\* C6: whatever the assignment tax_ids and the maximum group size N, the
\* condensed ids number at most N, or exactly one (all collapsed to root).
C6_AtMostN ==
    pc \in {"condensed", "recondensed"} =>
        \/ Cardinality(Range(cnd_out)) <= cnd_size
        \/ Cardinality(Range(cnd_out)) = 1

\* more ids than N, condensed to exactly N groups below root
C6_Witness ==
    /\ pc = "condensed"
    /\ Cardinality(CndIds) > cnd_size
    /\ Cardinality(Range(cnd_out)) = cnd_size
    /\ cnd_size > 1
    /\ 1 \notin Range(cnd_out)

\* C7: with at most N distinct assignment tax_ids every condensed id is its
\* assignment tax_id; otherwise all members sit at the first level, going
\* from the most specific rank to root, at which there are at most N groups
\* (root when there is none).
C7_NaturalRank ==
    pc \in {"condensed", "recondensed"} =>
        /\ DOMAIN cnd_out = CndIds
        /\ Cardinality(CndIds) <= cnd_size => \A a \in CndIds : cnd_out[a] = a
        /\ (\E a \in CndIds : cnd_out[a] # a) => Cardinality(CndIds) > cnd_size
        /\ Cardinality(CndIds) > cnd_size =>
               \E i \in 1..Len(BySpecificity) :
                   /\ \A a \in CndIds : cnd_out[a] = PromotedTo(a, BySpecificity[i])
                   /\ \/ Cardinality(GroupsAt(CndIds, BySpecificity[i])) <= cnd_size
                      \/ i = Len(BySpecificity)
                   /\ \A j \in 1..(i - 1) :
                          Cardinality(GroupsAt(CndIds, BySpecificity[j])) > cnd_size

\* more than N species, promoted to their genera and no further; and a
\* cluster within N left as it is
C7_Witness ==
    /\ pc = "condensed"
    /\ Cardinality(CndIds) > cnd_size
    /\ \A a \in CndIds : taxonomy[a].rank = "species" /\ taxonomy[a].genus # NULL
    /\ \A a \in CndIds : cnd_out[a] = taxonomy[a].genus
    /\ Cardinality(Range(cnd_out)) > 1

Queries == <<"q1", "q2">>

\* bound of the model: the alignment rows of one query
MaxRows == 2

\* the alignments a query may have
PipelineHits ==
    {[sseqid |-> "ra", pident |-> 100], [sseqid |-> "ra", pident |-> 98],
     [sseqid |-> "rb", pident |-> 98], [sseqid |-> "rc", pident |-> 98],
     [sseqid |-> "rd", pident |-> 98], [sseqid |-> "rc", pident |-> 96]}

\* the rows of query q in the hit table: one row without a subject when
\* nothing aligned, or its alignments
QueryRows(q) ==
    {<<[qseqid |-> q, sseqid |-> NONE, pident |-> NULL]>>} \cup
    {[i \in 1..Len(hs) |->
         [qseqid |-> q, sseqid |-> hs[i].sseqid, pident |-> hs[i].pident]]
     : hs \in SeqsUpTo(PipelineHits, MaxRows)}

\* the hit tables, rows grouped by query (line 626 sorts them by qseqid)
RawTables ==
    {r1 \o r2 : r1 \in QueryRows(Queries[1]),
                r2 \in QueryRows(Queries[2]) \cup {<<>>}}

NotGiven == [given |-> FALSE, map |-> <<>>]

\* the options: the hit table of --blast-file; no specimen option,
\* --specimen s1, or a --specimen-map that lists the first query only;
\* --max-group-size; --starred at its default
ArgsChoices ==
    {[blast_file |-> t, specimen_map |-> m[1], specimen |-> m[2],
      max_group_size |-> n, starred |-> 100, weights |-> NotGiven,
      copy_numbers |-> NotGiven]
     : t \in RawTables,
       m \in {<<NotGiven, NONE>>, <<NotGiven, "s1">>,
              <<[given |-> TRUE, map |-> (Queries[1] :> "s1")], NONE>>},
       n \in {1, MaxGroupSize}}

\* lines 538-553: the table as read, and its distinct query ids
Init ==
    /\ pc = "loaded"
    /\ args \in ArgsChoices
    /\ blast_results = args.blast_file
    /\ qseqids = unique([i \in 1..Len(blast_results) |-> blast_results[i].qseqid])
    /\ no_hits = <<>>
    /\ output = {}
    /\ SelIdle
    /\ CndIdle
    /\ ExtIdle

\* lines 555-648; find_tax_id may raise in a query's selection, and the
\* percentage logged at lines 632-634 divides by the number of joined rows
SelectHits ==
    /\ pc = "loaded"
    /\ LET joined == joined_table(blast_results)
       IN  IF joined = <<>>
           THEN /\ pc' = "ZeroDivisionError"
                /\ UNCHANGED blast_results
           ELSE IF \E q \in Range(qseqids) :
                       raises_index_error(
                           SelectSeq(joined, LAMBDA h : h.qseqid = q),
                           Reverse(ranks))
           THEN /\ pc' = "IndexError"
                /\ UNCHANGED blast_results
           ELSE /\ blast_results' = with_assignment_rank(selected_table(joined))
                /\ pc' = "hits_selected"
    /\ UNCHANGED <<args, qseqids, no_hits, output, sel_vars, cnd_vars, ext_vars>>

\* lines 650-683
AssignSpecimens ==
    /\ pc = "hits_selected"
    /\ LET merged == with_specimens(outer_joined(blast_results, qseqids), args)
       IN  /\ no_hits' = no_hits_of(merged)
           /\ blast_results' = SelectSeq(merged, LAMBDA h : h.sseqid # NONE)
    /\ pc' = "specimens_assigned"
    /\ UNCHANGED <<args, qseqids, output, sel_vars, cnd_vars, ext_vars>>

\* lines 685-697
CondenseGroups ==
    /\ pc = "specimens_assigned"
    /\ blast_results' = condensed_table(blast_results, args.max_group_size)
    /\ pc' = "groups_condensed"
    /\ UNCHANGED <<args, qseqids, no_hits, output, sel_vars, cnd_vars, ext_vars>>

\* lines 700-715
StarAndAssign ==
    /\ pc = "groups_condensed"
    /\ blast_results' =
           assigned_table(starred_table(blast_results, args.starred)) \o no_hits
    /\ pc' = "assigned"
    /\ UNCHANGED <<args, qseqids, no_hits, output, sel_vars, cnd_vars, ext_vars>>

\* lines 717-776; copy_corrections reads the root's copy number first
\* (line 419)
Summarize ==
    /\ pc = "assigned"
    /\ IF args.copy_numbers.given /\ 1 \notin DOMAIN args.copy_numbers.map
       THEN /\ pc' = "KeyError"
            /\ UNCHANGED output
       ELSE /\ output' = summary(blast_results, args)
            /\ pc' = "done"
    /\ UNCHANGED <<args, qseqids, blast_results, no_hits, sel_vars, cnd_vars, ext_vars>>

\* lines 778-790
NumberAssignments ==
    /\ pc = "done"
    /\ output' = numbered_output(output, args)
    /\ pc' = "written"
    /\ UNCHANGED <<args, qseqids, blast_results, no_hits, sel_vars, cnd_vars, ext_vars>>

Next ==
    \/ SelectHits
    \/ AssignSpecimens
    \/ CondenseGroups
    \/ StarAndAssign
    \/ Summarize
    \/ NumberAssignments

Spec == Init /\ [][Next]_vars

(***************************************************************************)
(* Runs with weights and copy numbers, on hit tables of three queries.      *)
(***************************************************************************)
ReportQueries == <<"q1", "q2", "q3">>

Hit(s, p) == [sseqid |-> s, pident |-> p]

\* two species of one genus, one of them at 100
TwoSpecies == <<Hit("ra", 100), Hit("rb", 98)>>
\* a hit that passes at genus only
GenusOnly == <<Hit("ra", 96)>>
\* four species of one genus
FourSpecies == <<Hit("rf", 98), Hit("rg", 98), Hit("rh", 98), Hit("ri", 98)>>
\* a query without alignment
NoSubject == <<Hit(NONE, NULL)>>
\* the two species in the other order
TwoSpeciesSwapped == <<Hit("rb", 98), Hit("ra", 100)>>
OneSpecies == <<Hit("rc", 98)>>
\* a hit that passes at no rank
NoValidHit == <<Hit("rc", 96)>>

\* the rows of query q with the alignments hs
ReportRows(q, hs) ==
    [i \in 1..Len(hs) |->
        [qseqid |-> q, sseqid |-> hs[i].sseqid, pident |-> hs[i].pident]]

ReportTables ==
    {ReportRows(ReportQueries[1], h1) \o ReportRows(ReportQueries[2], h2)
         \o ReportRows(ReportQueries[3], h3)
     : h1 \in {TwoSpecies, GenusOnly, FourSpecies, NoSubject, OneSpecies,
               NoValidHit},
       h2 \in {TwoSpecies, TwoSpeciesSwapped, GenusOnly, FourSpecies, NoSubject,
               OneSpecies, NoValidHit, <<>>},
       h3 \in {GenusOnly, NoSubject, OneSpecies, <<>>}}

\* a --weights file: a fractional weight, a large one, no entry for q3
SomeWeights ==
    [given |-> TRUE,
     map |-> (ReportQueries[1] :> Q(3, 2)) @@ (ReportQueries[2] :> Q(15000, 1))]

\* --copy-numbers files: one with the root and two more tax_ids, one
\* without the root
SomeCopyNumbers ==
    [given |-> TRUE, map |-> (1 :> Q(3, 2)) @@ (10 :> Q(5, 2)) @@ (315675 :> Q(4, 1))]

RootlessCopyNumbers == [given |-> TRUE, map |-> (10 :> Q(2, 1))]

\* a --specimen-map file: the first and the third query in one specimen
SomeSpecimens ==
    [given |-> TRUE,
     map |-> (ReportQueries[1] :> "s1") @@ (ReportQueries[2] :> "s2") @@
             (ReportQueries[3] :> "s1")]

ReportArgs ==
    {[blast_file |-> t, specimen_map |-> sp[1], specimen |-> sp[2],
      max_group_size |-> n, starred |-> 100, weights |-> w,
      copy_numbers |-> c]
     : t \in ReportTables,
       sp \in {<<NotGiven, "s1">>, <<SomeSpecimens, NONE>>},
       n \in {1, MaxGroupSize + 1},
       w \in {NotGiven, SomeWeights},
       c \in {NotGiven, SomeCopyNumbers, RootlessCopyNumbers}}

InitReport ==
    /\ pc = "loaded"
    /\ args \in ReportArgs
    /\ blast_results = args.blast_file
    /\ qseqids = unique([i \in 1..Len(blast_results) |-> blast_results[i].qseqid])
    /\ no_hits = <<>>
    /\ output = {}
    /\ SelIdle
    /\ CndIdle
    /\ ExtIdle

SpecReport == InitReport /\ [][Next]_vars


(***************************************************************************)
(* Properties of a run.                                                     *)
(***************************************************************************)
\* the run has ended, with the summary or with an exception
Finished == pc \in {"done", "ZeroDivisionError"}

\* query q of the hit table ends with zero valid hits
ZeroValidHits(q) ==
    \A h \in Range(selected_table(joined_table(args.blast_file))) : h.qseqid # q

\* the queries of specimen s that end with zero valid hits
UnclassifiedIn(s) ==
    {q \in Range(qseqids) : ZeroValidHits(q) /\ specimen_of(args, q) = s}

\* C5: when the run has ended, every query of the hit table that has a
\* specimen and ends with zero valid hits has an output row
\* "[no blast result]" with assignment_hash 0 in its specimen, whose reads
\* and clusters count the queries of the specimen with zero valid hits.
C5_AsClaimed ==
    Finished =>
        \A q \in Range(qseqids) :
            (ZeroValidHits(q) /\ specimen_of(args, q) # NONE) =>
                \E r \in output :
                    /\ r.specimen = specimen_of(args, q)
                    /\ r.assignment = "[no blast result]"
                    /\ r.assignment_hash = W64(0)
                    /\ r.clusters = Cardinality(UnclassifiedIn(r.specimen))
                    /\ r.reads = round(SumWeights(args, UnclassifiedIn(r.specimen)))

\* the rows of the table that are alignments
HitRows == {h \in Range(blast_results) : h.sseqid # NONE}

\* the distinct condensed ids of the specimen+query cluster of row g
ClusterIds(g) ==
    {h.condensed_id : h \in {x \in HitRows : /\ x.specimen = g.specimen
                                             /\ x.qseqid = g.qseqid}}

\* C9: once the clusters are condensed, two specimen+query clusters have
\* equal assignment_hash values if and only if their sets of distinct
\* condensed ids are the same.
C9_AsClaimed ==
    pc \in {"groups_condensed", "assigned", "done"} =>
        \A g, h \in HitRows :
            (g.assignment_hash = h.assignment_hash) <=>
                (ClusterIds(g) = ClusterIds(h))

\* C10 as stated: two clusters with the same set of condensed ids, in the
\* same or in different specimens, have the same assignment label.
C10_AsClaimed ==
    pc \in {"assigned", "done"} =>
        \A g, h \in HitRows :
            ClusterIds(g) = ClusterIds(h) => g.assignment = h.assignment

\* C10: two clusters of the same specimen with the same set of condensed
\* ids, met in any order, have the same assignment label.
C10_SameSpecimenSameLabel ==
    pc \in {"assigned", "done"} =>
        \A g, h \in HitRows :
            (g.specimen = h.specimen /\ ClusterIds(g) = ClusterIds(h)) =>
                g.assignment = h.assignment

\* the subject of the first row of query q in the hit table
FirstSubject(q) ==
    LET rows == SelectSeq(args.blast_file, LAMBDA h : h.qseqid = q)
    IN  rows[1].sseqid

\* two queries of one specimen whose hits name the same two ids in a
\* different order, one of the ids starred
C10_Witness ==
    /\ pc = "assigned"
    /\ \E g, h \in HitRows :
           /\ g.qseqid # h.qseqid
           /\ g.specimen = h.specimen
           /\ ClusterIds(g) = ClusterIds(h)
           /\ Cardinality(ClusterIds(g)) = 2
           /\ FirstSubject(g.qseqid) # FirstSubject(h.qseqid)
           /\ g.starred
           /\ g.assignment = h.assignment


(***************************************************************************)
(* Properties of the summary.                                               *)
(***************************************************************************)
\* C11: the summary has one row per specimen and assignment_hash, no
\* alignment row of a query with a valid hit has assignment_hash 0, and a
\* summary row with assignment_hash 0 is labelled "[no blast result]".
C11_AsClaimed ==
    pc = "done" =>
        /\ \A x, y \in output :
               (x.specimen = y.specimen /\ x.assignment_hash = y.assignment_hash)
                   => x = y
        /\ \A h \in HitRows : h.assignment_hash # W64(0)
        /\ \A x \in output :
               x.assignment_hash = W64(0) => x.assignment = "[no blast result]"

\* the rows of the group of row h for starring
StarGroup(h) ==
    {g \in HitRows : /\ g.specimen = h.specimen
                     /\ g.assignment_hash = h.assignment_hash
                     /\ g.condensed_id = h.condensed_id}

\* C12: once starred, a row is starred if and only if some hit of its
\* (specimen, assignment_hash, condensed_id) group has a pident greater than
\* or equal to the starred threshold, that is if the group's maximum is.
C12_StarredIffMaxAtLeast ==
    pc = "assigned" =>
        \A h \in HitRows :
            h.starred <=> (\E g \in StarGroup(h) : g.pident >= args.starred)

\* a group whose maximum equals the threshold and is starred, next to a group
\* of the same specimen and assignment_hash that is not
C12_Witness ==
    /\ pc = "assigned"
    /\ \E h, k \in HitRows :
           /\ h.specimen = k.specimen
           /\ h.assignment_hash = k.assignment_hash
           /\ h.condensed_id # k.condensed_id
           /\ h.starred
           /\ \A g \in StarGroup(h) : g.pident <= args.starred
           /\ ~k.starred

\* the (condensed_id, starred) pairs of the group of row h for assign
LabelGroup(h) ==
    {<<g.condensed_id, g.starred>> :
        g \in {x \in HitRows : /\ x.specimen = h.specimen
                               /\ x.assignment_hash = h.assignment_hash}}

GroupRanks(r) ==
    {h.assignment_rank : h \in {x \in HitRows : /\ x.specimen = r.specimen
                                                /\ x.assignment_hash = r.assignment_hash}}

LeastSpecific(S) ==
    CHOOSE x \in S : \A y \in S : IndexOf(ranks, x) <= IndexOf(ranks, y)

MostSpecific(S) ==
    CHOOSE x \in S : \A y \in S : IndexOf(ranks, y) <= IndexOf(ranks, x)

\* C14 as stated: the target_rank of a summary row is the least specific of
\* the assignment ranks of the hits of its group.
C14_AsClaimed ==
    pc = "done" =>
        \A r \in output :
            GroupRanks(r) # {} => r.target_rank = LeastSpecific(GroupRanks(r))

\* C14: the target_rank of a summary row is the most specific of the
\* assignment ranks of the hits of its group.
C14_MostSpecificPresent ==
    pc = "done" =>
        \A r \in output :
            GroupRanks(r) # {} => r.target_rank = MostSpecific(GroupRanks(r))

\* a group with hits assigned at genus and hits assigned at species
C14_Witness ==
    /\ pc = "done"
    /\ \E r \in output :
           /\ GroupRanks(r) = {"genus", "species"}
           /\ r.target_rank = "species"

\* the count a summary row is sorted by
Count(r) == IF args.copy_numbers.given THEN r.corrected ELSE r.reads

RowsOfSpecimen(sp) == {r \in output : r.specimen = sp}

GroupOf(r) ==
    {x \in Range(blast_results) : /\ x.specimen = r.specimen
                                  /\ x.assignment_hash = r.assignment_hash}

\* the distinct queries of the group of summary row r
QueriesOf(r) == {h.qseqid : h \in GroupOf(r)}

\* the weight given to query q, 1 without an entry
Weight(q) ==
    IF args.weights.given /\ q \in DOMAIN args.weights.map
    THEN args.weights.map[q]
    ELSE Q(1, 1)

RECURSIVE WeightSum(_)
WeightSum(qs) ==
    IF qs = {} THEN Q(0, 1)
    ELSE LET q == CHOOSE x \in qs : TRUE
         IN  QAdd(Weight(q), WeightSum(qs \ {q}))

RECURSIVE RowsWeightSum(_)
\* the sum of the weight sums of the summary rows rs
RowsWeightSum(rs) ==
    IF rs = {} THEN Q(0, 1)
    ELSE LET r == CHOOSE x \in rs : TRUE
         IN  QAdd(WeightSum(QueriesOf(r)), RowsWeightSum(rs \ {r}))

\* the percentage 100 * x / total
ExactPct(x, total) ==
    LET share == QDiv(x, total) IN Q(100 * share.num, share.den)

\* the percentage 100 * x / total, not less than 0.01
FlooredPct(x, total) ==
    IF 100 * ExactPct(x, total).num < ExactPct(x, total).den
    THEN Q(1, 100)
    ELSE ExactPct(x, total)

\* the queries of specimen sp in the details table
QueriesOfSpecimen(sp) ==
    {x.qseqid : x \in {y \in Range(blast_results) : y.specimen = sp}}

\* C17 as stated: reads is the sum of the weights of the distinct queries
\* of the group, clusters their number, and pct_reads 100 times the group's
\* sum over the sum of the weights of the queries of the specimen.
C17_AsClaimed ==
    pc = "done" =>
        \A r \in output :
            /\ Q(r.reads, 1) = WeightSum(QueriesOf(r))
            /\ r.clusters = Cardinality(QueriesOf(r))
            /\ r.pct_reads = ExactPct(WeightSum(QueriesOf(r)),
                                      WeightSum(QueriesOfSpecimen(r.specimen)))

\* C17: reads is the sum of the weights of the distinct queries of the
\* group rounded to the nearest whole number (a half goes up), clusters is
\* their number, and pct_reads is 100 times the group's sum over the total
\* of the sums of the specimen's summary rows, or 0.01 if that is less.
C17_RoundedReads ==
    pc = "done" =>
        \A r \in output :
            LET sum == WeightSum(QueriesOf(r))
                off == 2 * (r.reads * sum.den - sum.num)
            IN  /\ 0 - sum.den < off /\ off <= sum.den
                /\ r.clusters = Cardinality(QueriesOf(r))
                /\ r.pct_reads =
                       FlooredPct(sum, RowsWeightSum(RowsOfSpecimen(r.specimen)))

\* a group whose weights sum to a half-integer, with a query without a
\* weights entry in a group of the same specimen whose share is below 0.01
C17_Witness ==
    /\ pc = "done"
    /\ args.weights.given
    /\ \E r, x \in output :
           /\ r.specimen = x.specimen
           /\ WeightSum(QueriesOf(r)).den = 2
           /\ Q(r.reads, 1) # WeightSum(QueriesOf(r))
           /\ \E q \in QueriesOf(x) : q \notin DOMAIN args.weights.map
           /\ x.pct_reads = Q(1, 100)
           /\ x.pct_reads # ExactPct(WeightSum(QueriesOf(x)),
                                     RowsWeightSum(RowsOfSpecimen(x.specimen)))


RECURSIVE SumPctReads(_)
SumPctReads(rs) ==
    IF rs = {} THEN Q(0, 1)
    ELSE LET r == CHOOSE x \in rs : TRUE
         IN  QAdd(r.pct_reads, SumPctReads(rs \ {r}))

RECURSIVE SumPctCorrected(_)
SumPctCorrected(rs) ==
    IF rs = {} THEN Q(0, 1)
    ELSE LET r == CHOOSE x \in rs : TRUE
         IN  QAdd(r.pct_corrected, SumPctCorrected(rs \ {r}))

\* total is 100 plus at most 0.01 for each of the k rows at the floor
NearHundred(total, k) ==
    /\ ~QLess(total, Q(100, 1))
    /\ ~QLess(Q(10000 + k, 100), total)
    /\ (k = 0 => total = Q(100, 1))

\* C18: in every specimen no percentage is below 0.01, and the pct_reads
\* (and the pct_corrected, with copy numbers) of the summary rows sum to 100,
\* exceeded by at most 0.01 for every row that stands at the floor of 0.01.
C18_SumsToHundred ==
    pc = "done" =>
        \A r \in output :
            LET rows == RowsOfSpecimen(r.specimen)
            IN  /\ ~QLess(r.pct_reads, Q(1, 100))
                /\ NearHundred(SumPctReads(rows),
                       Cardinality({x \in rows : x.pct_reads = Q(1, 100)}))
                /\ args.copy_numbers.given =>
                       /\ ~QLess(r.pct_corrected, Q(1, 100))
                       /\ NearHundred(SumPctCorrected(rows),
                              Cardinality({x \in rows :
                                              x.pct_corrected = Q(1, 100)}))

\* a specimen with a row raised to 0.01 in both percentages, whose
\* percentages sum to more than 100
C18_Witness ==
    /\ pc = "done"
    /\ args.copy_numbers.given
    /\ \E r \in output :
           /\ r.pct_reads = Q(1, 100)
           /\ r.pct_corrected = Q(1, 100)
           /\ Cardinality(RowsOfSpecimen(r.specimen)) >= 2
           /\ QLess(Q(100, 1), SumPctReads(RowsOfSpecimen(r.specimen)))
           /\ QLess(Q(100, 1), SumPctCorrected(RowsOfSpecimen(r.specimen)))

\* the distinct assignment tax_ids of the group of summary row r (NULL for
\* the rows without a subject)
IdsOf(r) == {h.assignment_tax_id : h \in GroupOf(r)}

\* the copy number used for tax_id t: its own, or the root's
CopyNumber(t) ==
    IF t \in DOMAIN args.copy_numbers.map
    THEN args.copy_numbers.map[t]
    ELSE args.copy_numbers.map[1]

RECURSIVE CopySum(_)
CopySum(ids) ==
    IF ids = {} THEN Q(0, 1)
    ELSE LET t == CHOOSE x \in ids : TRUE
         IN  QAdd(CopyNumber(t), CopySum(ids \ {t}))

\* the weights of the group of r over the mean copy number of its tax_ids
CopyCorrected(r) ==
    QDiv(WeightSum(QueriesOf(r)),
         QDiv(CopySum(IdsOf(r)), Q(Cardinality(IdsOf(r)), 1)))

\* c is x rounded up to a whole number
IsCeilOf(c, x) == (c - 1) * x.den < x.num /\ x.num <= c * x.den

\* some tax_id of the group of r is not in the copy numbers table
HasLookupMiss(r) ==
    \E t \in IdsOf(r) : t # NULL /\ t \notin DOMAIN args.copy_numbers.map

RECURSIVE SumOfCorrected(_)
SumOfCorrected(rs) ==
    IF rs = {} THEN 0
    ELSE LET r == CHOOSE x \in rs : TRUE
         IN  r.corrected + SumOfCorrected(rs \ {r})

\* C20: with copy numbers, corrected is the sum of the group's weights
\* divided by the mean copy number of its distinct assignment tax_ids,
\* rounded up to a whole number and so at least 1, and pct_corrected is 100
\* times corrected over the specimen's total, or 0.01 if that is less.
C20_CorrectedRoundedUp ==
    (pc = "done" /\ args.copy_numbers.given) =>
        \A r \in output :
            /\ IsCeilOf(r.corrected, CopyCorrected(r))
            /\ r.corrected >= 1
            /\ r.pct_corrected =
                   FlooredPct(Q(r.corrected, 1),
                              Q(SumOfCorrected(RowsOfSpecimen(r.specimen)), 1))

\* a group whose quotient is not whole, in a specimen with a row whose
\* pct_corrected is raised to 0.01
C20_Witness ==
    /\ pc = "done"
    /\ args.copy_numbers.given
    /\ \E r, x \in output :
           /\ r.specimen = x.specimen
           /\ CopyCorrected(r).den # 1
           /\ Cardinality(IdsOf(r)) = 2
           /\ x.pct_corrected = Q(1, 100)
           /\ x.pct_corrected #
                  ExactPct(Q(x.corrected, 1),
                           Q(SumOfCorrected(RowsOfSpecimen(x.specimen)), 1))



(***************************************************************************)
(* The rank thresholds table: the defaults, the file of --rank-thresholds   *)
(* appended to them and the rows of one tax_id reduced to one (lines        *)
(* 607-622).  A thresholds file is a sequence of rows [tax_id, root, genus, *)
(* species], an empty cell being NaN.                                       *)
(***************************************************************************)
\* bound of the model: the rows of the user's file
MaxOverrides == 2

\* load_rank_thresholds() of line 608: the rows of the default file
default_thresholds ==
    LET ids == Ascending(DOMAIN rank_thresholds)
    IN  [i \in 1..Len(ids) |-> [tax_id |-> ids[i]] @@ rank_thresholds[ids[i]]]

\* GroupBy.last() (line 616) on column c of the rows of one group: the
\* last cell that is not null, NaN when there is none
last(rows, c) ==
    LET present == {i \in 1..Len(rows) : rows[i][c] # NULL}
    IN  IF present = {} THEN NULL
        ELSE rows[CHOOSE i \in present : \A j \in present : j <= i][c]

\* lines 611-616: the user's rows appended to the defaults, then
\* groupby(level=0).last()
overridden_thresholds(user) ==
    LET appended == default_thresholds \o user
        ids == {appended[i].tax_id : i \in 1..Len(appended)}
    IN  [t \in ids |->
            [r \in Range(ranks) |->
                last(SelectSeq(appended, LAMBDA x : x.tax_id = t), r)]]

\* lines 607-616: the table with or without --rank-thresholds
loaded_thresholds(user) ==
    IF user.given THEN overridden_thresholds(user.rows) ELSE rank_thresholds

\* line 622: blast_results.join(rank_thresholds, on='tax_id'), a left join
joined_thresholds(df, table) ==
    [i \in 1..Len(df) |->
        df[i] @@
        [thresholds |->
            IF df[i].tax_id \in DOMAIN table THEN table[df[i].tax_id]
            ELSE [r \in Range(ranks) |-> NULL]]]

\* the tax_ids of the user's rows: one with all default thresholds, one
\* with a species default only, one without a default row
OverrideIds == {315675, 13068847, 20}

\* the rows a user's file may hold
OverrideRows ==
    {[tax_id |-> t, root |-> a, genus |-> b, species |-> c]
     : t \in OverrideIds, a \in {NULL, 50}, b \in {NULL, 90},
       c \in {NULL, 99}}

\* the joined hit rows of line 605: one hit per reference sequence
ThresholdHits ==
    LET refs == <<"ra", "rb", "rc", "rGa", "rGb">>
    IN  [i \in 1..Len(refs) |-> Row("q1", refs[i], 98)]

InitThresholds ==
    /\ pc = "thresholds"
    /\ thr_user \in
           {[given |-> FALSE, rows |-> <<>>]} \cup
           {[given |-> TRUE, rows |-> u] : u \in SeqsUpTo(OverrideRows, MaxOverrides)}
    /\ thr_out = <<>>
    /\ thr_joined = <<>>
    /\ SelIdle
    /\ CndIdle
    /\ RunIdle
    /\ LoopIdle
    /\ LegIdle

\* lines 607-616
LoadRankThresholds ==
    /\ pc = "thresholds"
    /\ thr_out' = loaded_thresholds(thr_user)
    /\ pc' = "thresholds_loaded"
    /\ UNCHANGED <<thr_user, thr_joined, sel_vars, cnd_vars, run_vars, loop_vars, leg_vars>>

\* lines 618-622
JoinThresholds ==
    /\ pc = "thresholds_loaded"
    /\ thr_joined' = joined_thresholds(ThresholdHits, thr_out)
    /\ pc' = "thresholds_joined"
    /\ UNCHANGED <<thr_user, thr_out, sel_vars, cnd_vars, run_vars, loop_vars, leg_vars>>

NextThresholds == LoadRankThresholds \/ JoinThresholds

SpecThresholds == InitThresholds /\ [][NextThresholds]_vars

(***************************************************************************)
(* Properties of the rank thresholds table.                                 *)
(***************************************************************************)
\* the rows of the user's file for tax_id t
UserRows(t) == SelectSeq(thr_user.rows, LAMBDA x : x.tax_id = t)

\* the thresholds of a row of a thresholds file
ThresholdsIn(row) == [r \in Range(ranks) |-> row[r]]

\* C21: the hits of a tax_id that the user's file lists (once) are joined
\* with exactly the thresholds of the user's row, its unset ranks included,
\* and the hits of every other tax_id with their default thresholds.
C21_AsClaimed ==
    pc = "thresholds_joined" /\ thr_user.given =>
        \A i \in 1..Len(thr_joined) :
            LET t == thr_joined[i].tax_id
            IN  /\ Len(UserRows(t)) = 1 =>
                    thr_joined[i].thresholds = ThresholdsIn(UserRows(t)[1])
                /\ Len(UserRows(t)) = 0 =>
                    thr_joined[i].thresholds =
                        IF t \in DOMAIN rank_thresholds THEN rank_thresholds[t]
                        ELSE [r \in Range(ranks) |-> NULL]


(***************************************************************************)
(* Runs on hit tables with subjects that the reference table or the         *)
(* taxonomy table does not know (inner joins of lines 574-605).             *)
(***************************************************************************)
\* the alignments of a query: two known references, "rx" without a row in
\* seq_info, "ry" whose tax_id is not in the taxonomy
JoinHits == {Hit("ra", 98), Hit("rc", 98), Hit("rx", 100), Hit("ry", 100)}

\* the rows of one query: no alignment, or up to MaxRows alignments
JoinRows(q) ==
    {ReportRows(q, hs) : hs \in {NoSubject} \cup SeqsUpTo(JoinHits, MaxRows)}

JoinTables ==
    {r1 \o r2 : r1 \in JoinRows(Queries[1]),
                r2 \in JoinRows(Queries[2]) \cup {<<>>}}

JoinArgs ==
    {[blast_file |-> t, specimen_map |-> NotGiven, specimen |-> sp,
      max_group_size |-> MaxGroupSize, starred |-> 100, weights |-> NotGiven,
      copy_numbers |-> NotGiven]
     : t \in JoinTables, sp \in {NONE, "s1"}}

InitJoins ==
    /\ pc = "loaded"
    /\ args \in JoinArgs
    /\ blast_results = args.blast_file
    /\ qseqids = unique([i \in 1..Len(blast_results) |-> blast_results[i].qseqid])
    /\ no_hits = <<>>
    /\ output = {}
    /\ SelIdle
    /\ CndIdle
    /\ ExtIdle

SpecJoins == InitJoins /\ [][Next]_vars

\* the hit has a subject that seq_info or the taxonomy does not know
Unknown(h) ==
    /\ h.sseqid # NONE
    /\ \/ h.sseqid \notin DOMAIN seq_info
       \/ seq_info[h.sseqid] \notin TaxIds

\* the output of a run on hit table t with the query ids qs (lines 555-790)
OutputOf(t, qs) ==
    LET selected == with_assignment_rank(selected_table(joined_table(t)))
        merged == with_specimens(outer_joined(selected, qs), args)
        hits == SelectSeq(merged, LAMBDA h : h.sseqid # NONE)
        condensed == condensed_table(hits, args.max_group_size)
        assigned == assigned_table(starred_table(condensed, args.starred))
                        \o no_hits_of(merged)
    IN  numbered_output(summary(assigned, args), args)

\* C22: a run whose hit table has hits with an unknown subject does not
\* abort; no row of the working table comes from such a hit, and the run
\* writes what it writes for the other hits alone.
C22_AsClaimed ==
    (\E h \in Range(args.blast_file) : Unknown(h)) =>
        /\ pc # "ZeroDivisionError"
        /\ pc # "loaded" => \A h \in Range(blast_results) : ~Unknown(h)
        /\ pc = "written" =>
               output = OutputOf(SelectSeq(args.blast_file,
                                           LAMBDA h : ~Unknown(h)), qseqids)


(***************************************************************************)
(* Properties of the specimen labels (lines 653-675).                       *)
(***************************************************************************)
\* the specimen labels given at line 675
SpecimenLabels == {h.specimen : h \in Range(blast_results) \cup Range(no_hits)}

\* C23: without --specimen-map and without --specimen, all queries of the
\* run are in one specimen.
C23_AsClaimed ==
    pc = "specimens_assigned" /\ ~args.specimen_map.given /\ args.specimen = NONE
        => Cardinality(SpecimenLabels) = 1


(***************************************************************************)
(* Runs with --min-identity, --max-identity and --min-coverage (lines       *)
(* 490-504) on hit tables with the qcovs column.                            *)
(***************************************************************************)
\* the alignments of a query: subject, pident, qcovs
FilterHits ==
    {[sseqid |-> "ra", pident |-> 98, qcovs |-> 100],
     [sseqid |-> "ra", pident |-> 96, qcovs |-> 100],
     [sseqid |-> "rb", pident |-> 100, qcovs |-> 100],
     [sseqid |-> "rc", pident |-> 98, qcovs |-> 50]}

\* the rows of query q with the alignments hs
FilterRows(q, hs) ==
    [i \in 1..Len(hs) |->
        [qseqid |-> q, sseqid |-> hs[i].sseqid, pident |-> hs[i].pident,
         qcovs |-> hs[i].qcovs]]

FilterTables ==
    {FilterRows(Queries[1], h1) \o FilterRows(Queries[2], h2)
     : h1 \in SeqsUpTo(FilterHits, MaxRows),
       h2 \in SeqsUpTo(FilterHits, MaxRows) \cup {<<>>}}

\* the options of lines 490-504, NULL when not given
FilterArgs ==
    {[blast_file |-> t, specimen_map |-> NotGiven, specimen |-> "s1",
      max_group_size |-> MaxGroupSize, starred |-> 100, weights |-> NotGiven,
      copy_numbers |-> NotGiven,
      min_identity |-> lo, max_identity |-> hi, min_coverage |-> cov]
     : t \in FilterTables, lo \in {NULL, 97}, hi \in {NULL, 99},
       cov \in {NULL, 80}}

InitFilters ==
    /\ pc = "loaded"
    /\ args \in FilterArgs
    /\ blast_results = args.blast_file
    /\ qseqids = unique([i \in 1..Len(blast_results) |-> blast_results[i].qseqid])
    /\ no_hits = <<>>
    /\ output = {}
    /\ SelIdle
    /\ CndIdle
    /\ ExtIdle

SpecFilters == InitFilters /\ [][Next]_vars

\* the hit is outside the bounds that the options of the run set
OutOfBounds(h) ==
    \/ args.min_identity # NULL /\ h.pident < args.min_identity
    \/ args.max_identity # NULL /\ h.pident > args.max_identity
    \/ args.min_coverage # NULL /\ h.qcovs < args.min_coverage

\* C24: no hit with pident below --min-identity or above --max-identity, or
\* with qcovs below --min-coverage, is among the hits that an assignment of
\* the run is made of.
C24_AsClaimed ==
    pc \in {"hits_selected", "specimens_assigned", "groups_condensed", "assigned"}
        => \A h \in Range(blast_results) : h.sseqid # NONE => ~OutOfBounds(h)


(***************************************************************************)
(* Properties of the rows that the Hit Selector returns.                    *)
(***************************************************************************)
\* the threshold of the hit's tax_id at rank r in the thresholds table
TableThreshold(h, r) ==
    IF h.tax_id \in DOMAIN rank_thresholds THEN rank_thresholds[h.tax_id][r]
    ELSE NULL

\* C25: every returned row carries as assignment_threshold the threshold of
\* its tax_id at the rank where the selector returned, its pident is
\* strictly greater than that threshold, and a hit whose pident equals its
\* threshold at that rank is not returned.
C25_StrictlyAboveThreshold ==
    pc = "selected" =>
        /\ \A j \in 1..Len(sel_out) :
               /\ sel_out[j].assignment_threshold # NULL
               /\ sel_out[j].assignment_threshold =
                      TableThreshold(sel_out[j], sel_rank)
               /\ sel_out[j].pident > sel_out[j].assignment_threshold
        /\ sel_rank # NONE =>
               \A h \in Range(sel_df) :
                   h.pident = TableThreshold(h, sel_rank) => ~Returned(h)

\* a return at genus with a returned hit above its genus threshold and under
\* its species threshold, and a hit at exactly its genus threshold that is
\* not returned
C25_Witness ==
    /\ pc = "selected"
    /\ sel_rank = "genus"
    /\ \E j \in 1..Len(sel_out) :
          /\ sel_out[j].assignment_threshold = 95
          /\ sel_out[j].pident = 96
          /\ TableThreshold(sel_out[j], "species") = 97
    /\ \E h \in Range(sel_df) :
          h.pident = TableThreshold(h, "genus") /\ ~Returned(h)


(***************************************************************************)
(* select_valid_hits on hits of taxa with empty rank cells.                 *)
(***************************************************************************)
\* the reference sequences: a species with all its ranks, a species
\* without genus, a species without genus and root, a taxon without any
\* rank cell
SparseRefs == {"ra", "re", "rn", "ru"}

InitSparse ==
    /\ pc = "select"
    /\ sel_df \in SeqsUpTo({Row("q1", s, p) : s \in SparseRefs, p \in Pidents},
                           MaxHits)
    /\ sel_rank = NONE
    /\ sel_out = <<>>
    /\ CndIdle
    /\ RunIdle
    /\ ExtIdle

SpecSparse == InitSparse /\ [][NextSelect]_vars

\* the hit's taxon has no tax_id at any rank
NoRankCell(h) == \A i \in 1..Len(ranks) : taxonomy[h.tax_id][ranks[i]] = NULL

\* C26: the selector never raises, and a query all of whose hits have no
\* tax_id at any rank gets no row.
C26_AsClaimed ==
    /\ pc # "IndexError"
    /\ pc = "selected" /\ (\A h \in Range(sel_df) : NoRankCell(h))
           => sel_out = <<>>


(***************************************************************************)
(* The loop of the Group Condenser (section 4.4), one rank level per step:  *)
(* every member starts as its own group; while there are more than          *)
(* max_size groups and the keys are not yet at root, all members are        *)
(* promoted to the next less specific rank.                                 *)
(***************************************************************************)
\* mutant: the promotion does not go past the rank below root
next_level_above_root(level) == IF level > 2 THEN level - 1 ELSE level

\* the index in ranks of the next less specific rank
next_level(level) == level - 1

\* the loop goes on: too many groups, and a less specific rank is left
must_promote(keys, max_size, level) ==
    DistinctGroups(keys) > max_size /\ level > 1

InitCondenseLoop ==
    /\ pc = "condensing"
    /\ cnd_df \in {RowsOf(S) : S \in SUBSET CondenseTaxIds \ {{}}}
    /\ cnd_size \in 0..MaxGroupSize
    /\ cnd_keys = [t \in {cnd_df[i].assignment_tax_id : i \in 1..Len(cnd_df)} |-> t]
    /\ cnd_level = Len(ranks) + 1
    /\ cnd_out = <<>>
    /\ cnd_again = <<>>
    /\ SelIdle
    /\ RunIdle
    /\ ThrIdle
    /\ LegIdle

\* one promotion of all members
Promote ==
    /\ pc = "condensing"
    /\ must_promote(cnd_keys, cnd_size, cnd_level)
    /\ cnd_level' = next_level(cnd_level)
    /\ cnd_keys' = [t \in DOMAIN cnd_keys |-> group_key(t, ranks[cnd_level'])]
    /\ UNCHANGED <<pc, cnd_df, cnd_size, cnd_out, cnd_again, sel_vars, run_vars,
                   thr_vars, leg_vars>>

\* the loop ends and the mapping is returned
StopCondensing ==
    /\ pc = "condensing"
    /\ ~must_promote(cnd_keys, cnd_size, cnd_level)
    /\ cnd_out' = cnd_keys
    /\ pc' = "condense_stopped"
    /\ UNCHANGED <<cnd_df, cnd_size, cnd_again, cnd_level, cnd_keys, sel_vars,
                   run_vars, thr_vars, leg_vars>>

NextCondenseLoop == Promote \/ StopCondensing

\* the loop is sequential code: a step that can be taken is taken
SpecCondenseLoop ==
    InitCondenseLoop /\ [][NextCondenseLoop]_vars /\ WF_vars(NextCondenseLoop)

\* C27: the condenser eventually stops, with at most N distinct groups or
\* at root with all members in a single group.
C27_Terminates ==
    <>(/\ pc = "condense_stopped"
       /\ \/ Cardinality(Range(cnd_out)) <= cnd_size
          \/ cnd_level = 1 /\ Cardinality(Range(cnd_out)) = 1)

\* more than N members of two genera, promoted level by level down to
\* root, where the loop stopped with one group
C27_Witness ==
    /\ pc = "condense_stopped"
    /\ cnd_level = 1
    /\ cnd_size >= 1
    /\ Cardinality(CndIds) > cnd_size
    /\ Cardinality(GroupsAt(CndIds, "genus")) > cnd_size
    /\ Range(cnd_out) = {1}
    /\ cnd_out = sequtils_condense_ids(CndIds, cnd_size)


(***************************************************************************)
(* Conservation of the queries from the hit table to the summary rows.      *)
(***************************************************************************)
\* the queries of the hit table with specimen label sp
LabelledQueries(sp) == {q \in Range(qseqids) : specimen_of(args, q) = sp}

\* the specimen labels of the queries of the hit table
Labels == {specimen_of(args, q) : q \in Range(qseqids)} \ {NONE}

RECURSIVE SumOfClusters(_)
SumOfClusters(rs) ==
    IF rs = {} THEN 0
    ELSE LET r == CHOOSE x \in rs : TRUE
         IN  r.clusters + SumOfClusters(rs \ {r})

RECURSIVE SumOfReads(_)
SumOfReads(rs) ==
    IF rs = {} THEN 0
    ELSE LET r == CHOOSE x \in rs : TRUE
         IN  r.reads + SumOfReads(rs \ {r})

MaxLegacyHits == 3

\* args.weights.get(q, 1) (lines 176, 232, 235, 240)
legacy_weight(a, q) ==
    IF q \in DOMAIN a.weights THEN a.weights[q] ELSE 1

\* update_blast_results (lines 110-127): the target rank id of the subject
target_rank_id(b, a) == taxonomy[seq_info[b.sseqid]][a.target_rank]

\* lines 170-197: the raw filters and the columns added for classification
\* (no subject is its own query, ambiguous, excluded or unclassified)
legacy_filtered(raw, a) ==
    LET kept == SelectSeq(raw, LAMBDA b :
                    /\ legacy_weight(a, b.qseqid) >= a.min_cluster_size
                    /\ b.pident >= a.details_identity
                    /\ b.coverage >= a.details_coverage)
        updated == [i \in 1..Len(kept) |->
                       kept[i] @@ [query |-> kept[i].qseqid,
                                   target_rank_id |-> target_rank_id(kept[i], a)]]
    IN  SelectSeq(updated, LAMBDA b : b.target_rank_id # NULL)

\* specimen_grouper (lines 201-206)
specimen_grouper(a, h) ==
    IF a.map # <<>> THEN a.map[h.qseqid]
    ELSE IF a.all_one_group THEN "all"
    ELSE h.qseqid

\* itertools.groupby: the end of the run of equal keys that starts at i
run_end(keys, i) ==
    CHOOSE e \in i..Len(keys) :
        /\ \A k \in i..e : keys[k] = keys[i]
        /\ e = Len(keys) \/ keys[e + 1] # keys[i]

RECURSIVE groupby(_, _)
\* itertools.groupby (lines 208, 217): the runs of consecutive equal keys,
\* from position i on, as pairs of first and last position
groupby(keys, i) ==
    IF i > Len(keys) THEN <<>>
    ELSE <<<<i, run_end(keys, i)>>>> \o groupby(keys, run_end(keys, i) + 1)

\* the filters of the three groups (lines 124-131)
in_range(a, h) ==
    a.max_identity >= h.pident /\ h.pident > a.min_identity
        /\ h.coverage >= a.coverage

above_max(a, h) == h.pident > a.max_identity /\ h.coverage >= a.coverage

at_most_min(a, h) == h.pident <= a.min_identity /\ h.coverage >= a.coverage

queries_of(hits) == {hits[i].query : i \in 1..Len(hits)}

\* lines 209-228: the categories of the hits of one specimen group, each
\* with the hits put into it
legacy_categories(hits, a) ==
    LET matches1 == SelectSeq(hits, LAMBDA h : in_range(a, h))
        runs == groupby([i \in 1..Len(matches1) |-> matches1[i].query], 1)
        cat_of(k) == {matches1[i].target_rank_id : i \in runs[k][1]..runs[k][2]}
        clusters1 == queries_of(matches1)
        hits1 == SelectSeq(hits, LAMBDA h : h.query \notin clusters1)
        matches2 == SelectSeq(hits1, LAMBDA h : above_max(a, h))
        clusters2 == clusters1 \cup queries_of(matches2)
        hits2 == SelectSeq(hits1, LAMBDA h : h.query \notin clusters2)
        matches3 == SelectSeq(hits2, LAMBDA h : at_most_min(a, h))
        clusters3 == clusters2 \cup queries_of(matches3)
        hits3 == SelectSeq(hits2, LAMBDA h : h.query \notin clusters3)
    IN  {[kind |-> "ids", ids |-> c,
          hits |-> UNION {{matches1[i] : i \in runs[k][1]..runs[k][2]}
                          : k \in {j \in 1..Len(runs) : cat_of(j) = c}}]
         : c \in {cat_of(k) : k \in 1..Len(runs)}}
        \cup {[kind |-> "> max", ids |-> {}, hits |-> Range(matches2)],
              [kind |-> "<= min", ids |-> {}, hits |-> Range(matches3)],
              [kind |-> "no match", ids |-> {}, hits |-> Range(hits3)]}

RECURSIVE legacy_reads(_, _)
\* sum(float(args.weights.get(c, 1)) for c in clusters) (lines 232, 240)
legacy_reads(a, clusters) ==
    IF clusters = {} THEN 0
    ELSE LET c == CHOOSE x \in clusters : TRUE
         IN  legacy_weight(a, c) + legacy_reads(a, clusters \ {c})

MaxOf(S) == CHOOSE x \in S : \A y \in S : y <= x

\* lines 229-258: the rows written for one specimen group
legacy_rows(specimen, hits, a) ==
    LET total_reads == legacy_reads(a, queries_of(hits))
    IN  {LET clusters == {h.query : h \in cat.hits}
             coverages == {h.coverage : h \in cat.hits}
             percents == {h.pident : h \in cat.hits}
             reads == legacy_reads(a, clusters)
         IN  [specimen |-> specimen,
              kind |-> cat.kind,
              ids |-> cat.ids,
              reads |-> reads,
              pct_reads |-> pct(Q(reads, 1), Q(total_reads, 1)),
              clusters |-> Cardinality(clusters),
              max_percent |-> IF percents = {} THEN 0 ELSE MaxOf(percents),
              min_percent |-> IF percents = {} THEN 0 ELSE MinOf(percents),
              max_coverage |-> IF coverages = {} THEN 0 ELSE MaxOf(coverages),
              min_coverage |-> IF coverages = {} THEN 0 ELSE MinOf(coverages)]
         : cat \in legacy_categories(hits, a)}

\* the alignments of a query: in range, above --max-identity, at most
\* --min-identity, under the coverage threshold
LegacyAlignments ==
    {[sseqid |-> sb, pident |-> v[1], coverage |-> v[2]]
     : sb \in {"ra", "rc"},
       v \in {<<98, 100>>, <<100, 100>>, <<96, 100>>, <<98, 92>>}}

LegacyHits ==
    {[qseqid |-> q, sseqid |-> h.sseqid, pident |-> h.pident,
      coverage |-> h.coverage]
     : q \in Range(Queries), h \in LegacyAlignments}

\* the options (lines 20-108): --min-identity 97 --max-identity 99, and
\* either the default grouping, --not-all-one-group or a --map file;
\* with or without --weights
LegacyArgs ==
    {[min_identity |-> 97, max_identity |-> 99, coverage |-> 95,
      details_identity |-> 90, details_coverage |-> 90,
      min_cluster_size |-> 0, target_rank |-> "species",
      all_one_group |-> g[1], map |-> g[2], weights |-> w]
     : g \in {<<TRUE, <<>>>>, <<FALSE, <<>>>>,
              <<TRUE, (Queries[1] :> "s1") @@ (Queries[2] :> "s2")>>},
       w \in {<<>>, (Queries[1] :> 3)}}

InitLegacy ==
    /\ pc = "classify"
    /\ leg_args \in LegacyArgs
    /\ leg_hits \in SeqsUpTo(LegacyHits, MaxLegacyHits)
    /\ leg_rest = <<>>
    /\ leg_out = <<>>
    /\ SelIdle
    /\ CndIdle
    /\ RunIdle
    /\ ThrIdle
    /\ LoopIdle

\* lines 168-197
ReadBlastResults ==
    /\ pc = "classify"
    /\ leg_rest' = legacy_filtered(leg_hits, leg_args)
    /\ pc' = "grouping"
    /\ UNCHANGED <<leg_args, leg_hits, leg_out, sel_vars, cnd_vars, run_vars,
                   thr_vars, loop_vars>>

\* one turn of the loop of line 208: the next run of rows of one specimen
ClassifySpecimen ==
    /\ pc = "grouping"
    /\ leg_rest # <<>>
    /\ LET keys == [i \in 1..Len(leg_rest) |->
                       specimen_grouper(leg_args, leg_rest[i])]
           e == run_end(keys, 1)
       IN  /\ leg_out' = Append(leg_out,
                                legacy_rows(keys[1], SubSeq(leg_rest, 1, e),
                                            leg_args))
           /\ leg_rest' = SubSeq(leg_rest, e + 1, Len(leg_rest))
    /\ UNCHANGED <<pc, leg_args, leg_hits, sel_vars, cnd_vars, run_vars,
                   thr_vars, loop_vars>>

\* the loop of line 208 ends
FinishClassify ==
    /\ pc = "grouping"
    /\ leg_rest = <<>>
    /\ pc' = "classified"
    /\ UNCHANGED <<leg_vars, sel_vars, cnd_vars, run_vars, thr_vars, loop_vars>>

NextLegacy == ReadBlastResults \/ ClassifySpecimen \/ FinishClassify

SpecLegacy == InitLegacy /\ [][NextLegacy]_vars

(***************************************************************************)
(* Properties of classify.                                                  *)
(***************************************************************************)
\* the rows of the blast file that pass the filters of lines 175-197
Filtered == Range(legacy_filtered(leg_hits, leg_args))

\* the queries of specimen sp
LegacyQueries(sp) ==
    {h.query : h \in {x \in Filtered : specimen_grouper(leg_args, x) = sp}}

\* the category of query q by its hits: the target rank ids of its hits in
\* range, else "> max", else "<= min", else "no match"
CategoryOf(q) ==
    LET mine == {h \in Filtered : h.query = q}
    IN  IF \E h \in mine : in_range(leg_args, h)
        THEN [kind |-> "ids",
              ids |-> {h.target_rank_id :
                          h \in {x \in mine : in_range(leg_args, x)}}]
        ELSE IF \E h \in mine : above_max(leg_args, h)
        THEN [kind |-> "> max", ids |-> {}]
        ELSE IF \E h \in mine : at_most_min(leg_args, h)
        THEN [kind |-> "<= min", ids |-> {}]
        ELSE [kind |-> "no match", ids |-> {}]

RECURSIVE LegacyWeightSum(_)
LegacyWeightSum(qs) ==
    IF qs = {} THEN 0
    ELSE LET q == CHOOSE x \in qs : TRUE
         IN  (IF q \in DOMAIN leg_args.weights THEN leg_args.weights[q] ELSE 1)
                 + LegacyWeightSum(qs \ {q})

\* the block counts every query of its specimen once, in the row of the
\* query's category
CountsEachQueryOnce(rows, sp) ==
    /\ \A q \in LegacyQueries(sp) :
           \E r \in rows : [kind |-> r.kind, ids |-> r.ids] = CategoryOf(q)
    /\ \A r \in rows :
           r.clusters =
               Cardinality({q \in LegacyQueries(sp) :
                               CategoryOf(q) = [kind |-> r.kind, ids |-> r.ids]})
    /\ SumOfReads(rows) = LegacyWeightSum(LegacyQueries(sp))

\* C30: whatever the order of the rows of the blast file, each specimen has
\* one block of output rows, every query of the specimen is counted in
\* exactly one row of the block, the row of its category, and the reads of
\* the block sum to the reads of the specimen.
C30_AsClaimed ==
    pc = "classified" =>
        /\ \A i, j \in 1..Len(leg_out) :
               (\E x \in leg_out[i] : \E y \in leg_out[j] : x.specimen = y.specimen)
                   => i = j
        /\ \A i \in 1..Len(leg_out) :
               \A x \in leg_out[i] : CountsEachQueryOnce(leg_out[i], x.specimen)

====
